---- MODULE Spec2Model ----
(***************************************************************************)
(* A model of DocZilla's file services and page scripts.                   *)
(*                                                                         *)
(*   Files    file_io.py: save_data_file, generate_timestamped_filename,   *)
(*            move_file, over a small file system                          *)
(***************************************************************************)
EXTENDS Integers, Sequences, FiniteSets, TLC

(***************************************************************************)
(* Bounds of the model.                                                    *)
(***************************************************************************)
MaxClock == 1
MaxLen == 2
MaxFiles == 2
MaxRows == 4
MaxTarget == 3
MaxRowBytes == 2
MaxText == 2
MaxDocText == 1
MaxDataLen == 2
LargeSize == 2
SampleRows == 1
MaxLogRows == 2
MaxKeyLen == 2

VARIABLES
    fs,         \* the file system: a function from the existing paths to their bytes
    clock,      \* datetime.now() to the second
    lastSave,   \* what the latest save_data_file call did
    mv,         \* the move_file call in progress
    sp,         \* the split_data_file call in progress
    mem,        \* an InMemorySearchIndex: self._index
    added,      \* what was added to it since the last clear, by name
    ret,        \* what the latest call on it returned
    pinst,      \* the PersistentSearchIndex instances: instance -> directory
    pdir,       \* the documents kept under each directory: name -> text
    padded,     \* what was added through any instance since the last clear
    pret,       \* what the latest call on a persistent index returned
    docs,       \* session_state.docs: name -> path and text
    dsess,      \* session_state.reindex_on_upload and .search_index
    dwidgets,   \* the document page's widgets: toggle, uploader, query
    ddisk,      \* the Input directory, temp/ and temp/index
    dshown,     \* the search results the latest run displayed
    dexpect,    \* the documents indexed on load or rebuild since the last clear
    data_files, \* session_state.data_files: name -> entry
    file_hashes, \* session_state.cache_tracker["file_hashes"]: path -> hash
    xdisk,      \* the Input directory and temp/, as the data page sees them
    xwidgets,   \* the data page's widgets: auto-load checkbox, uploader
    xshown,     \* what the latest run of the data page reported
    xsnap,      \* the content each entry's file had when the entry was loaded
    edits_staged, \* session_state.edits_staged: name -> staged payload
    eshown,     \* what the latest Edit & Clean action did
    mwidgets,   \* the Merge Tables form: the two files and the join type
    mshown,     \* what the latest run of the merge handler did and displayed
    cv,         \* the Convert Files batch: its loop variables
    memo,       \* st.cache_data: the keys of the memoized calls
    cret,       \* what the latest call of a cache utility did and returned
    lg,         \* the process's activity logger and its log directory
    lret,       \* what the latest call of the logging module did
    cfg,        \* the Config instance's document, the config file and the template
    kret,       \* what the latest call on the Config did and returned
    conv,       \* what the latest ConversionRegistry.convert_file call did
    vp,         \* what the latest validate_file_path call did
    tn,         \* what the latest file-name generation returned, by length
    pg,         \* what the latest move_pages call wrote
    pw,         \* a PollingWatcher, the directory it scans and its latest scan
    sim         \* what the latest _merge_with_similarity call returned

fileVars == <<fs, clock, lastSave, mv>>
splitVars == <<sp>>
indexVars == <<mem, added, ret>>
persistVars == <<pinst, pdir, padded, pret>>
docPageVars == <<docs, dsess, dwidgets, ddisk, dshown, dexpect>>
dataPageVars == <<data_files, file_hashes, xdisk, xwidgets, xshown, xsnap>>
editVars == <<edits_staged, eshown>>
mergeVars == <<mwidgets, mshown>>

cacheVars == <<memo, cret>>
logVars == <<lg, lret>>
configVars == <<cfg, kret>>

\* The services and utilities called one at a time
callVars == <<conv, vp, tn, pg, pw, sim>>

\* The tabs below Upload & Analysis, and the utilities
toolVars == <<editVars, mergeVars, cv, cacheVars, logVars, configVars, callVars>>

\* What the steps of one component leave alone: the other components.
notFiles == <<splitVars, indexVars, persistVars, docPageVars, dataPageVars, toolVars>>
notSplit == <<fileVars, indexVars, persistVars, docPageVars, dataPageVars, toolVars>>
notIndex == <<fileVars, splitVars, persistVars, docPageVars, dataPageVars, toolVars>>
notPersist == <<fileVars, splitVars, indexVars, docPageVars, dataPageVars, toolVars>>
notDocPage == <<fileVars, splitVars, indexVars, persistVars, dataPageVars, toolVars>>
notDataPage == <<fileVars, splitVars, indexVars, persistVars, docPageVars, toolVars>>
notEdit == <<splitVars, indexVars, persistVars, docPageVars, mergeVars, cv, cacheVars,
             logVars, configVars, callVars>>
notMerge == <<splitVars, indexVars, persistVars, docPageVars, dataPageVars, editVars, cv,
              cacheVars, logVars, configVars, callVars>>
notConvert == <<splitVars, indexVars, persistVars, docPageVars, dataPageVars, editVars,
                mergeVars, cacheVars, logVars, configVars, callVars>>
notCache == <<fs, lastSave, mv, splitVars, indexVars, persistVars, docPageVars,
              editVars, mergeVars, cv, logVars, configVars, callVars>>
notLog == <<fs, lastSave, mv, splitVars, indexVars, persistVars, docPageVars, dataPageVars,
            editVars, mergeVars, cv, cacheVars, configVars, callVars>>
notConfig == <<fileVars, splitVars, indexVars, persistVars, docPageVars, dataPageVars,
               editVars, mergeVars, cv, cacheVars, logVars, callVars>>
notConversion == <<lastSave, mv, splitVars, indexVars, persistVars, docPageVars,
                   dataPageVars, editVars, mergeVars, cv, cacheVars, logVars, configVars,
                   vp, tn, pg, pw, sim>>
pageVars == <<splitVars, indexVars, persistVars, docPageVars, dataPageVars,
              editVars, mergeVars, cv, cacheVars, logVars, configVars>>
notValidate == <<fileVars, pageVars, conv, tn, pg, pw, sim>>
notNaming == <<fileVars, pageVars, conv, vp, pg, pw, sim>>
notPages == <<fileVars, pageVars, conv, vp, tn, pw, sim>>
notWatcher == <<fileVars, pageVars, conv, vp, tn, pg, sim>>
notSimilarity == <<fileVars, pageVars, conv, vp, tn, pg, pw>>
vars == <<fs, clock, lastSave, mv, sp, mem, added, ret, pinst, pdir, padded, pret,
          docs, dsess, dwidgets, ddisk, dshown, dexpect,
          data_files, file_hashes, xdisk, xwidgets, xshown, xsnap,
          edits_staged, eshown, mwidgets, mshown, cv, memo, cret, lg, lret, cfg, kret,
          conv, vp, tn, pg, pw, sim>>

(***************************************************************************)
(* Paths.  A path is <<directory, file name>>.  "cwd" is the process's     *)
(* working directory, against which a relative path is resolved.           *)
(***************************************************************************)
Dirs == {"cwd", "output", "input"}

\* f"{base}_{timestamp}.{extension}" (seq = 0) or
\* f"{base}_{timestamp}_{counter:03d}.{extension}" (seq = counter)
FileName(base, ts, seq, ext) == [base |-> base, ts |-> ts, seq |-> seq, ext |-> ext]

Path(dir, name) == <<dir, name>>

Exists(f, p) == p \in DOMAIN f

\* The payloads (DataFrames) a caller can pass: the tables of rows 1..n.
Frames == {[i \in 1..n |-> i] : n \in 1..MaxLen}

Write(f, p, c) == (p :> c) @@ f

Remove(f, p) == [q \in (DOMAIN f) \ {p} |-> f[q]]

(***************************************************************************)
(* generate_timestamped_filename                                           *)
(***************************************************************************)
RECURSIVE FreeCounter(_, _, _, _, _)
\* while Path(f"{base}_{timestamp}_{counter:03d}.{extension}").exists(): counter += 1
\* A relative Path is resolved against the working directory.
FreeCounter(f, base, ts, ext, counter) ==
    IF Exists(f, Path("cwd", FileName(base, ts, counter, ext)))
    THEN FreeCounter(f, base, ts, ext, counter + 1)
    ELSE counter

\* The collision test Path(filename).exists(): filename carries no directory.
CollisionDir(dest) == "cwd"

generate_timestamped_filename(f, now, dest, base, ext) ==
    IF Exists(f, Path(CollisionDir(dest), FileName(base, now, 0, ext)))
    THEN FileName(base, now, FreeCounter(f, base, now, ext, 1), ext)
    ELSE FileName(base, now, 0, ext)

(***************************************************************************)
(* save_data_file(df, file_path, file_type) with file_path a directory.    *)
(***************************************************************************)
SaveTarget(f, now, dir, ext) ==
    Path(dir, generate_timestamped_filename(f, now, dir, "data", ext))

SaveDataFile(dir, df, ext) ==
    /\ mv.pc = "idle"
    /\ Cardinality(DOMAIN fs) < MaxFiles
       \/ Exists(fs, SaveTarget(fs, clock, dir, ext))
    /\ LET target == SaveTarget(fs, clock, dir, ext) IN
         /\ lastSave' = [called |-> TRUE, path |-> target,
                         existed |-> Exists(fs, target)]
         /\ fs' = Write(fs, target, df)
    /\ UNCHANGED <<clock, mv, notFiles>>

Tick ==
    /\ mv.pc = "idle"
    /\ clock < MaxClock
    /\ clock' = clock + 1
    /\ UNCHANGED <<fs, lastSave, mv, notFiles>>

(***************************************************************************)
(* move_file(source, destination, verify), one step per statement that     *)
(* touches the file system.                                                *)
(***************************************************************************)
NoMove == [pc |-> "idle"]

Size(c) == Len(c)

\* The strict prefixes of c: what an interrupted copy can leave behind.
StrictPrefixes(c) == {SubSeq(c, 1, n) : n \in 0..(Len(c) - 1)}

\* if not source.exists(): raise OperationalError
MoveCall(src, dst, verify) ==
    /\ mv.pc = "idle"
    /\ Cardinality(DOMAIN fs) < MaxFiles \/ Exists(fs, dst)
    /\ mv' = [pc |-> IF Exists(fs, src) THEN (IF verify THEN "copy" ELSE "direct")
                     ELSE "raised",
              src |-> src, dst |-> dst, verify |-> verify,
              orig |-> IF Exists(fs, src) THEN fs[src] ELSE <<>>,
              hadDst |-> Exists(fs, dst),
              oldDst |-> IF Exists(fs, dst) THEN fs[dst] ELSE <<>>,
              wrote |-> FALSE,
              why |-> IF Exists(fs, src) THEN "" ELSE "not found"]
    /\ UNCHANGED <<fs, clock, lastSave, notFiles>>

\* What shutil.copy2(source, destination) can do.
\*   "same"    source and destination are one file: SameFileError, nothing written
\*   "ok"      the destination holds the source's bytes
\*   "denied"  the destination cannot be opened: an error, nothing written
\*   "broken"  the write stops part-way (disk full, I/O error): an error, and
\*             the destination holds a strict prefix
\*   "short"   the call returns but the destination is shorter than the source
CopyOutcomes(src, dst) ==
    IF src = dst THEN {"same"} ELSE {"ok", "denied", "broken", "short"}

\* shutil.copy2(source, destination), then the except clause when it raises.
MoveCopy ==
    /\ mv.pc = "copy"
    /\ \E how \in CopyOutcomes(mv.src, mv.dst) :
         CASE how = "ok" ->
                /\ fs' = Write(fs, mv.dst, fs[mv.src])
                /\ mv' = [mv EXCEPT !.pc = "verify", !.wrote = TRUE]
           [] how \in {"same", "denied"} ->
                /\ fs' = fs
                /\ mv' = [mv EXCEPT !.pc = "raised", !.why = "copy"]
           [] how = "broken" ->
                /\ \E part \in StrictPrefixes(fs[mv.src]) :
                     fs' = Write(fs, mv.dst, part)
                /\ mv' = [mv EXCEPT !.pc = "raised", !.why = "copy", !.wrote = TRUE]
           [] how = "short" ->
                /\ \E part \in StrictPrefixes(fs[mv.src]) :
                     fs' = Write(fs, mv.dst, part)
                /\ mv' = [mv EXCEPT !.pc = "verify", !.wrote = TRUE]
    /\ UNCHANGED <<clock, lastSave, notFiles>>

\* A check that only asks whether the destination exists.
VerifiedExistsOnly(f, src, dst) == Exists(f, dst)

\* destination.exists() and destination.stat().st_size == source.stat().st_size
Verified(f, src, dst) == Exists(f, dst) /\ Size(f[dst]) = Size(f[src])

\* The if/else after the copy: on a mismatch the destination is unlinked and
\* the error raised; on a match the source is unlinked next.
MoveVerify ==
    /\ mv.pc = "verify"
    /\ IF Verified(fs, mv.src, mv.dst)
       THEN /\ mv' = [mv EXCEPT !.pc = "unlink"]
            /\ fs' = fs
       ELSE /\ fs' = IF Exists(fs, mv.dst) THEN Remove(fs, mv.dst) ELSE fs
            /\ mv' = [mv EXCEPT !.pc = "raised", !.why = "verification"]
    /\ UNCHANGED <<clock, lastSave, notFiles>>

\* source.unlink(); return True.  An unlink that raises is re-raised wrapped.
MoveUnlink ==
    /\ mv.pc = "unlink"
    /\ \E ok \in BOOLEAN :
         IF ok
         THEN /\ fs' = Remove(fs, mv.src)
              /\ mv' = [mv EXCEPT !.pc = "returned"]
         ELSE /\ fs' = fs
              /\ mv' = [mv EXCEPT !.pc = "raised", !.why = "unlink"]
    /\ UNCHANGED <<clock, lastSave, notFiles>>

\* shutil.move(str(source), str(destination)): a rename, or an error.
MoveDirect ==
    /\ mv.pc = "direct"
    /\ \E ok \in BOOLEAN :
         IF ok
         THEN /\ fs' = Write(Remove(fs, mv.src), mv.dst, fs[mv.src])
              /\ mv' = [mv EXCEPT !.pc = "returned", !.wrote = TRUE]
         ELSE /\ fs' = fs
              /\ mv' = [mv EXCEPT !.pc = "raised", !.why = "move"]
    /\ UNCHANGED <<clock, lastSave, notFiles>>

\* The call is over; the caller goes on.
MoveEnd ==
    /\ mv.pc \in {"returned", "raised"}
    /\ mv' = NoMove
    /\ UNCHANGED <<fs, clock, lastSave, notFiles>>

\* The paths a move is asked about: an existing file, to its name in any directory.
MoveSources == DOMAIN fs \cup {Path("output", FileName("data", 0, 0, "csv"))}

InitFiles ==
    /\ fs = <<>>
    /\ clock = 0
    /\ lastSave = [called |-> FALSE, path |-> <<>>, existed |-> FALSE]
    /\ mv = NoMove

NextFiles ==
    \/ Tick
    \/ \E dir \in Dirs, df \in Frames, ext \in {"csv"} : SaveDataFile(dir, df, ext)
    \/ \E src \in MoveSources, dir \in Dirs, verify \in BOOLEAN :
         MoveCall(src, Path(dir, src[2]), verify)
    \/ MoveCopy
    \/ MoveVerify
    \/ MoveUnlink
    \/ MoveDirect
    \/ MoveEnd


(***************************************************************************)
(* Claims about the file services.                                         *)
(***************************************************************************)

\* C1: every save_data_file call into a directory writes to a path at which
\* no file existed before the call, so no earlier output is overwritten.
C1_SaveNeverOverwrites == lastSave.called => ~lastSave.existed

InVerifiedMove == mv.pc # "idle" /\ mv.verify /\ mv.why # "not found"

\* At least one complete copy of the moved data exists.
CompleteCopyExists ==
    \/ Exists(fs, mv.src) /\ fs[mv.src] = mv.orig
    \/ Exists(fs, mv.dst) /\ fs[mv.dst] = mv.orig

\* The source is gone only when the destination exists with the source's size.
SourceGoneOnlyVerified ==
    ~Exists(fs, mv.src) => Exists(fs, mv.dst) /\ Size(fs[mv.dst]) = Size(mv.orig)

\* A failed call leaves the source as it was.
RaisedKeepsSource ==
    mv.pc = "raised" => Exists(fs, mv.src) /\ fs[mv.src] = mv.orig

C30_DestinationSurvivesFailure ==
    (mv.pc = "raised" /\ mv.why \in {"copy", "verification"} /\ mv.hadDst)
        => Exists(fs, mv.dst) /\ fs[mv.dst] = mv.oldDst

(***************************************************************************)
(* fragments.py: split_data_file, _split_by_rows, _split_by_size.          *)
(*                                                                         *)
(* The split folder is a small tree: a function from paths (sequences of   *)
(* file names below the folder) to the rows the file holds.  A file name   *)
(* is a sequence of tokens; the token "." is a dot.                        *)
(***************************************************************************)
NoSplit == [pc |-> "idle"]

\* f"{k:03d}"
Pad3(k) == <<(k \div 100) % 10, (k \div 10) % 10, k % 10>>

\* f"{original_file.stem}_part{i+1:03d}.{extension}"
PartName(stem, k, ext) == <<stem, "_part", Pad3(k), ".", ext>>

\* output_dir / ".temp_sample"
TempSampleName == <<".", "temp_sample">>

\* str.rfind('.') on the tokens, 0 when there is no dot
LastDot(name) ==
    IF \E i \in 1..Len(name) : name[i] = "."
    THEN CHOOSE i \in 1..Len(name) :
             name[i] = "." /\ \A j \in (i + 1)..Len(name) : name[j] # "."
    ELSE 0

\* pathlib's PurePath.suffix: the part from the last dot on, unless that dot
\* leads the name or ends it.
Suffix(name) ==
    IF LastDot(name) > 1 /\ LastDot(name) < Len(name)
    THEN SubSeq(name, LastDot(name), Len(name))
    ELSE <<>>

\* p is a directory of the tree: some file lies below it.
IsDir(tree, p) ==
    \E q \in DOMAIN tree : Len(q) > Len(p) /\ SubSeq(q, 1, Len(p)) = p

\* save_data_file's destination: below file_path when file_path is a directory
\* or has no suffix, else file_path itself.
SavePath(tree, p, ext) ==
    IF IsDir(tree, p) \/ Suffix(p[Len(p)]) = <<>>
    THEN p \o <<<<"data", "_", "timestamp", ".", ext>>>>
    ELSE p

\* save_data_file(df, file_path, file_type) into the tree
SaveInto(tree, p, rows, ext) == (SavePath(tree, p, ext) :> rows) @@ tree

\* (len(df) + rows_per_file - 1) // rows_per_file, with every part but the
\* last dropped when the row count is no multiple: floor division
FloorChunks(n, r) == n \div r

\* total_chunks = (len(df) + rows_per_file - 1) // rows_per_file
TotalChunks(n, r) == (n + r - 1) \div r

Min(a, b) == IF a < b THEN a ELSE b

\* df.iloc[start_idx:end_idx] for 0-based start (inclusive) and end (exclusive)
Iloc(df, start, end) == SubSeq(df, start + 1, Min(end, Len(df)))

\* The _split_by_size loop over df.iterrows().  Sizes are kept as multiples of
\* 1/sample_size: a row weighs sampleBytes, the budget is target * sampleSize.
RECURSIVE SizeChunks(_, _, _, _, _, _)
SizeChunks(df, idx, chunk, sampleBytes, budget, done) ==
    IF idx > Len(df)
    THEN IF chunk # <<>> THEN Append(done, chunk) ELSE done
    ELSE IF (Len(chunk) + 1) * sampleBytes > budget /\ chunk # <<>>
         THEN SizeChunks(df, idx + 1, <<df[idx]>>, sampleBytes, budget,
                         Append(done, chunk))
         ELSE SizeChunks(df, idx + 1, Append(chunk, df[idx]), sampleBytes, budget,
                         done)

RECURSIVE WriteParts(_, _, _, _, _)
\* save_data_file(chunk_df, output_dir / part name, extension) for every chunk
WriteParts(tree, stem, ext, chunks, k) ==
    IF k > Len(chunks) THEN tree
    ELSE WriteParts(SaveInto(tree, <<PartName(stem, k, ext)>>, chunks[k], ext),
                    stem, ext, chunks, k + 1)

\* split_data_file up to the dispatch on split_method.  target is target_rows
\* or the size target in bytes; a target of 0 is falsy and rejected.
SplitCall(n, method, target, rowBytes) ==
    /\ sp.pc = "idle"
    /\ sp' = [pc |-> IF target = 0 THEN "raised" ELSE method,
              method |-> method,
              stem |-> "src", ext |-> "csv",
              df |-> [i \in 1..n |-> i],
              target |-> target,
              rowBytes |-> rowBytes,
              i |-> 0,
              tree |-> <<>>,
              output_files |-> <<>>]
    /\ UNCHANGED notSplit

\* One turn of the for loop of _split_by_rows, or its return.
SplitRowsStep ==
    /\ sp.pc = "rows"
    /\ IF sp.i < TotalChunks(Len(sp.df), sp.target)
       THEN LET start_idx == sp.i * sp.target
                end_idx == Min(start_idx + sp.target, Len(sp.df))
                chunk == Iloc(sp.df, start_idx, end_idx)
                output_path == <<PartName(sp.stem, sp.i + 1, sp.ext)>>
            IN sp' = [sp EXCEPT
                        !.tree = SaveInto(sp.tree, output_path, chunk, sp.ext),
                        !.output_files =
                            Append(@, SavePath(sp.tree, output_path, sp.ext)),
                        !.i = @ + 1]
       ELSE sp' = [sp EXCEPT !.pc = "returned"]
    /\ UNCHANGED notSplit

\* The header line of the sample file, in bytes.
HeaderBytes == 1

\* _split_by_size: the sample is saved, measured and unlinked, then the rows
\* are chunked and the chunks saved.  An empty table divides by zero; an
\* unlink of a directory raises.
SplitBySize ==
    /\ sp.pc = "size"
    /\ LET sample_size == Min(1000, Len(sp.df))
           temp_file == <<TempSampleName>>
           withSample == SaveInto(sp.tree, temp_file, Iloc(sp.df, 0, sample_size), sp.ext)
           sample_size_bytes == HeaderBytes + sample_size * sp.rowBytes
           chunks == SizeChunks(sp.df, 1, <<>>, sample_size_bytes,
                                sp.target * sample_size, <<>>)
       IN IF sample_size = 0 \/ temp_file \notin DOMAIN withSample
          THEN sp' = [sp EXCEPT !.pc = "raised", !.tree = withSample]
          ELSE sp' = [sp EXCEPT
                        !.pc = "returned",
                        !.tree = WriteParts([q \in DOMAIN withSample \ {temp_file}
                                                |-> withSample[q]],
                                            sp.stem, sp.ext, chunks, 1),
                        !.output_files =
                            [k \in 1..Len(chunks) |-> <<PartName(sp.stem, k, sp.ext)>>]]
    /\ UNCHANGED notSplit

\* The caller has the result or the error.
SplitEnd ==
    /\ sp.pc \in {"returned", "raised"}
    /\ sp' = NoSplit
    /\ UNCHANGED notSplit

NextSplit ==
    \/ \E n \in 0..MaxRows, method \in {"rows", "size"}, target \in 0..MaxTarget,
          rowBytes \in 1..MaxRowBytes :
         /\ method = "rows" => rowBytes = 1
         /\ SplitCall(n, method, target, rowBytes)
    \/ SplitRowsStep
    \/ SplitBySize
    \/ SplitEnd

(***************************************************************************)
(* Claims about splitting.                                                 *)
(***************************************************************************)

\* ceil(n / r), stated on its own: the least k with k * r >= n.
CeilDiv(n, r) == CHOOSE k \in 0..n : k * r >= n /\ (k = 0 \/ (k - 1) * r < n)

RECURSIVE Concat(_, _)
\* The rows of the first k files of a list of paths, one after another.
Concat(files, k) ==
    IF k = 0 THEN <<>> ELSE Concat(files, k - 1) \o sp.tree[files[k]]

SplitDone(method) == sp.pc = "returned" /\ sp.method = method

\* C4: split by rows of n rows with target_rows r >= 1 returns exactly
\* ceil(n / r) files named <stem>_part001, _part002, ... in order; part i
\* holds the source rows (i-1)*r .. min(i*r, n)-1 in order, so every part but
\* the last has r rows, no row is in two parts and the row counts add up to n.
C4_SplitByRows ==
    SplitDone("rows") =>
        LET n == Len(sp.df)
            r == sp.target
            files == sp.output_files
        IN /\ Len(files) = CeilDiv(n, r)
           /\ \A i \in 1..Len(files) :
                /\ files[i] = <<PartName(sp.stem, i, sp.ext)>>
                /\ PartName(sp.stem, i, sp.ext)[3] = <<0, 0, i>>
                /\ files[i] \in DOMAIN sp.tree
                /\ sp.tree[files[i]] =
                       [j \in 1..(Min(i * r, n) - (i - 1) * r) |-> sp.df[(i - 1) * r + j]]
                /\ i < Len(files) => Len(sp.tree[files[i]]) = r
           /\ Concat(files, Len(files)) = sp.df

\* A split by rows whose last part is shorter than the others has returned.
C4_Witness ==
    /\ SplitDone("rows")
    /\ Len(sp.output_files) >= 2
    /\ Len(sp.df) % sp.target # 0

\* C5: split by size of a file with n >= 1 rows and a positive target
\* returns at least one part; every row is in exactly one part, in order,
\* and no part is empty.
C5_SplitBySizeCompletes ==
    (sp.pc \in {"returned", "raised"} /\ sp.method = "size"
        /\ Len(sp.df) >= 1 /\ sp.target > 0) =>
        /\ sp.pc = "returned"
        /\ Len(sp.output_files) >= 1
        /\ \A i \in 1..Len(sp.output_files) :
             /\ sp.output_files[i] \in DOMAIN sp.tree
             /\ sp.tree[sp.output_files[i]] # <<>>
        /\ Concat(sp.output_files, Len(sp.output_files)) = sp.df

(***************************************************************************)
(* doc_ops.py: InMemorySearchIndex.  Text is a sequence of characters.     *)
(***************************************************************************)
\* A letter in both cases and a whitespace character.
Chars == {"a", "A", "\n"}

Whitespace == {" ", "\n"}

\* Every text of at most MaxText characters.
Texts == UNION {[1..n -> Chars] : n \in 0..MaxText}

\* None, where Python allows the argument to be None: no text holds this element
None == <<"None">>

DocNames == {"d1", "d2"}

\* A lower() that leaves the text as it is.
LowerKeepsCase(t) == t

\* str.lower
Lower(t) == [i \in 1..Len(t) |-> IF t[i] = "A" THEN "a" ELSE t[i]]

\* str.strip: leading and trailing whitespace removed
Strip(t) ==
    IF \A i \in 1..Len(t) : t[i] \in Whitespace THEN <<>>
    ELSE LET first == CHOOSE i \in 1..Len(t) :
                          t[i] \notin Whitespace /\ \A j \in 1..(i - 1) : t[j] \in Whitespace
             last == CHOOSE i \in 1..Len(t) :
                          t[i] \notin Whitespace
                          /\ \A j \in (i + 1)..Len(t) : t[j] \in Whitespace
         IN SubSeq(t, first, last)

\* text[a:b] for 0 <= a <= b <= len(text)
Slice(t, a, b) == SubSeq(t, a + 1, b)

\* needle occurs in hay at the 0-based position idx
MatchAt(hay, needle, idx) ==
    /\ idx + Len(needle) <= Len(hay)
    /\ Slice(hay, idx, idx + Len(needle)) = needle

\* str.find(needle, start): the least position >= start of an occurrence, or -1
Find(hay, needle, start) ==
    IF \E idx \in start..Len(hay) : MatchAt(hay, needle, idx)
    THEN CHOOSE idx \in start..Len(hay) :
             /\ MatchAt(hay, needle, idx)
             /\ \A j \in start..(idx - 1) : ~MatchAt(hay, needle, j)
    ELSE -1

\* A replace that leaves the newlines in
KeepNewlines(t) == t

\* str.replace("\n", " ")
FlattenNewlines(t) == [i \in 1..Len(t) |-> IF t[i] = "\n" THEN " " ELSE t[i]]

Max(a, b) == IF a > b THEN a ELSE b

\* Characters of context kept on either side of a match.
SnippetContext == 80

\* Snippets returned per document at most.
MaxSnippets == 3

RECURSIVE Snippets(_, _, _, _)
\* The while loop of search: snippets around successive matches of q from start.
Snippets(text, q, start, snippets) ==
    LET idx == Find(Lower(text), Lower(q), start) IN
    IF idx = -1 \/ Len(snippets) >= MaxSnippets
    THEN snippets
    ELSE LET snippet_start == Max(0, idx - SnippetContext)
             snippet_end == Min(Len(text), idx + Len(q) + SnippetContext)
         IN Snippets(text, q, idx + Len(q),
                     Append(snippets,
                            FlattenNewlines(Slice(text, snippet_start, snippet_end))))

\* InMemorySearchIndex.add: self._index[file_name] = text or ""
IndexAdd(index, file_name, text) ==
    (file_name :> (IF text = None THEN <<>> ELSE text)) @@ index

\* InMemorySearchIndex.clear
IndexClear(index) == <<>>

\* q = (query or "").strip()
Trimmed(query) == IF query = None THEN <<>> ELSE Strip(query)

\* InMemorySearchIndex.search: file name -> snippets
IndexSearch(index, query) ==
    LET q == Trimmed(query) IN
    IF q = <<>> THEN <<>>
    ELSE [n \in {m \in DOMAIN index :
                    index[m] # <<>> /\ Find(Lower(index[m]), Lower(q), 0) # -1}
             |-> Snippets(index[n], q, 0, <<>>)]

NoReturn == [op |-> "none"]

\* index.add(file_name, text)
MemAdd(file_name, text) ==
    /\ mem' = IndexAdd(mem, file_name, text)
    /\ added' = (file_name :> text) @@ added
    /\ ret' = [op |-> "add"]
    /\ UNCHANGED notIndex

\* index.clear()
MemClear ==
    /\ mem' = IndexClear(mem)
    /\ added' = <<>>
    /\ ret' = [op |-> "clear"]
    /\ UNCHANGED notIndex

\* index.search(query)
MemSearch(query) ==
    /\ ret' = [op |-> "search", query |-> query, results |-> IndexSearch(mem, query)]
    /\ UNCHANGED <<mem, added, notIndex>>

NextIndex ==
    \/ \E n \in DocNames, t \in Texts \cup {None} : MemAdd(n, t)
    \/ MemClear
    \/ \E q \in Texts \cup {None} : MemSearch(q)

(***************************************************************************)
(* Claims about the in-memory index.                                       *)
(***************************************************************************)

\* needle is a substring of hay, stated without find
IsSubstring(needle, hay) ==
    \E a \in 0..Len(hay) : \E b \in a..Len(hay) : Slice(hay, a, b) = needle

\* text with upper and lower case identified
Folded(t) == [i \in 1..Len(t) |-> IF t[i] \in {"a", "A"} THEN "a" ELSE t[i]]

Blank(query) == query = None \/ \A i \in 1..Len(query) : query[i] \in Whitespace

\* The text most recently added under a name since the last clear ("" for None).
LatestText(n) == IF added[n] = None THEN <<>> ELSE added[n]

\* C7: after any adds and clears, search(q) for a non-blank q returns exactly
\* the names whose latest text contains the trimmed q, case-insensitively, each
\* with at least one snippet; a blank query returns nothing; and right after
\* clear every search returns nothing.
C7_SearchExact ==
    /\ ret.op = "search" =>
          /\ ~Blank(ret.query) =>
                /\ DOMAIN ret.results =
                      {n \in DOMAIN added :
                          IsSubstring(Folded(Trimmed(ret.query)), Folded(LatestText(n)))}
                /\ \A n \in DOMAIN ret.results : Len(ret.results[n]) >= 1
          /\ Blank(ret.query) => ret.results = <<>>
    /\ ret.op = "clear" => \A q \in Texts \cup {None} : IndexSearch(mem, q) = <<>>

\* A search for a trimmed, case-folded query found one of two indexed documents.
C7_Witness ==
    /\ ret.op = "search"
    /\ DOMAIN added = DocNames
    /\ Cardinality(DOMAIN ret.results) = 1
    /\ ret.query # None
    /\ Trimmed(ret.query) # ret.query
    /\ \E n \in DOMAIN ret.results : ~IsSubstring(Trimmed(ret.query), LatestText(n))

(***************************************************************************)
(* PersistentSearchIndex: imported from doc_ops by the document handler    *)
(* and the unit tests.  Its contract is the one the specification gives:   *)
(* add, clear and search as the in-memory variant, over files kept under   *)
(* the directory the instance was constructed on.                          *)
(***************************************************************************)
\* Every document text of at most MaxDocText characters.
DocTexts == UNION {[1..n -> Chars] : n \in 0..MaxDocText}

\* The texts of the documents a user drops or uploads, and of their queries.
PageTexts == {t \in DocTexts : Len(t) = MaxDocText /\ \A i \in 1..Len(t) : t[i] \notin Whitespace}

Instances == {"index1", "index2"}

\* Path("temp") / "index", the directory the callers construct the index on
IndexPath == <<"temp", "index">>

\* An index that keeps its documents in the instance, not in the directory.
StoreOfInstance(inst) == inst

\* Where an instance keeps its documents: the directory it was constructed on.
StoreOf(inst) == pinst[inst]

\* The documents kept under a store
Stored(key) == IF key \in DOMAIN pdir THEN pdir[key] ELSE <<>>

\* PersistentSearchIndex(path)
PersistNew(inst) ==
    /\ inst \notin DOMAIN pinst
    /\ pinst' = (inst :> IndexPath) @@ pinst
    /\ pret' = [op |-> "new", inst |-> inst]
    /\ UNCHANGED <<pdir, padded, notPersist>>

\* index.add(file_name, text)
PersistAdd(inst, file_name, text) ==
    /\ inst \in DOMAIN pinst
    /\ pdir' = (StoreOf(inst) :> IndexAdd(Stored(StoreOf(inst)), file_name, text)) @@ pdir
    /\ padded' = (file_name :> [text |-> text, by |-> inst]) @@ padded
    /\ pret' = [op |-> "add", inst |-> inst]
    /\ UNCHANGED <<pinst, notPersist>>

\* index.clear()
PersistClear(inst) ==
    /\ inst \in DOMAIN pinst
    /\ pdir' = (StoreOf(inst) :> IndexClear(Stored(StoreOf(inst)))) @@ pdir
    /\ padded' = <<>>
    /\ pret' = [op |-> "clear", inst |-> inst]
    /\ UNCHANGED <<pinst, notPersist>>

\* What index.search(query) returns on an instance
PersistSearchResult(inst, query) == IndexSearch(Stored(StoreOf(inst)), query)

\* index.search(query)
PersistSearch(inst, query) ==
    /\ inst \in DOMAIN pinst
    /\ pret' = [op |-> "search", inst |-> inst, query |-> query,
                results |-> PersistSearchResult(inst, query)]
    /\ UNCHANGED <<pinst, pdir, padded, notPersist>>

NextPersist ==
    \/ \E inst \in Instances : PersistNew(inst)
    \/ \E inst \in Instances, n \in DocNames, t \in DocTexts : PersistAdd(inst, n, t)
    \/ \E inst \in Instances : PersistClear(inst)
    \/ \E inst \in Instances, q \in PageTexts : PersistSearch(inst, q)

(***************************************************************************)
(* Claims about the persistent index.                                      *)
(***************************************************************************)

\* The names added through any instance since the last clear whose text
\* contains the trimmed query, case-insensitively.
ExpectedNames(query) ==
    {n \in DOMAIN padded :
        IsSubstring(Folded(Trimmed(query)), Folded(padded[n].text))}

\* C8: two persistent indexes constructed on the same directory each find
\* what was added through either of them, and after a clear through either
\* of them a search through either returns nothing.
C8_InstancesShareDirectory ==
    \A inst \in DOMAIN pinst : \A q \in DocTexts :
        /\ ~Blank(q) => DOMAIN PersistSearchResult(inst, q) = ExpectedNames(q)
        /\ pret.op = "clear" => PersistSearchResult(inst, q) = <<>>

\* A search through one instance found a document added through the other.
C8_Witness ==
    /\ pret.op = "search"
    /\ \E n \in DOMAIN pret.results : padded[n].by # pret.inst

(***************************************************************************)
(* pages/document_handler.py.  The page script runs from top to bottom on  *)
(* every interaction: one action per interaction, each the whole run.      *)
(***************************************************************************)
\* An index object: the in-memory variant holds its documents itself, the
\* persistent one in temp/index.
MemoryIndex(index) == [kind |-> "memory", index |-> index]

\* The state a run works on: the session, the display, and the disk.
RunState(use_persistent) ==
    [docs |-> docs,
     reindex |-> dsess.reindex_on_upload,
     index |-> dsess.search_index,
     temp_index |-> ddisk.temp_index,
     temp |-> ddisk.temp,
     expect |-> dexpect,
     shown |-> [searched |-> FALSE]]

\* search_index.add on the index the session holds
ActiveAdd(r, name, text) ==
    IF r.index.kind = "persistent"
    THEN [r EXCEPT !.temp_index = IndexAdd(@, name, text)]
    ELSE [r EXCEPT !.index = MemoryIndex(IndexAdd(r.index.index, name, text))]

\* search_index.clear on the index the session holds
ActiveClear(r) ==
    IF r.index.kind = "persistent"
    THEN [r EXCEPT !.temp_index = IndexClear(@)]
    ELSE [r EXCEPT !.index = MemoryIndex(IndexClear(r.index.index))]

\* search_index.search on the index the session holds
ActiveSearch(r, query) ==
    IF r.index.kind = "persistent"
    THEN IndexSearch(r.temp_index, query)
    ELSE IndexSearch(r.index.index, query)

\* load_doc_to_session(path)
load_doc_to_session(r, dir, name, content) ==
    LET text == content
        r1 == [r EXCEPT !.docs = (name :> [path |-> <<dir, name>>, text |-> text]) @@ @]
    IN IF r1.reindex
       THEN [ActiveAdd(r1, name, text) EXCEPT !.expect = (name :> text) @@ @]
       ELSE r1

RECURSIVE LoadAll(_, _, _, _)
\* load_doc_to_session for each file of a listing; the names differ, so the
\* order of the loads does not show in the result
LoadAll(r, dir, files, names) ==
    IF names = {} THEN r
    ELSE LET name == CHOOSE n \in names : TRUE
         IN LoadAll(load_doc_to_session(r, dir, name, files[name]), dir, files,
                    names \ {name})

RECURSIVE AddAll(_, _, _)
\* for name, doc in docs.items(): search_index.add(name, doc["text"])
AddAll(r, all, names) ==
    IF names = {} THEN r
    ELSE LET name == CHOOSE n \in names : TRUE
         IN AddAll(ActiveAdd(r, name, all[name].text), all, names \ {name})

\* rebuild_index()
rebuild_index(r) ==
    [AddAll(ActiveClear(r), r.docs, DOMAIN r.docs)
        EXCEPT !.expect = [n \in DOMAIN r.docs |-> r.docs[n].text]]

\* Index controls: the Reindex toggle and the Clear Temp Index button
IndexControls(r, event) ==
    LET r1 == [r EXCEPT !.reindex = IF event = "toggle_reindex" THEN ~@ ELSE @]
    IN IF event = "clear_temp_index"
       THEN [r1 EXCEPT !.temp_index = IndexClear(@), !.expect = <<>>]
       ELSE r1

\* Swap search index implementation based on toggle
SwapIndex(r, use_persistent) ==
    [r EXCEPT !.index = IF use_persistent THEN [kind |-> "persistent"] ELSE MemoryIndex(<<>>)]

\* Upload & View: the Load from Input Directory button, then the uploader
UploadTab(r, event, uploaded) ==
    LET r1 == IF event = "load_input"
              THEN LoadAll(r, "input", ddisk.input, DOMAIN ddisk.input)
              ELSE r
        r2 == [r1 EXCEPT !.temp = uploaded @@ @]
    IN LoadAll(r2, "temp", uploaded, DOMAIN uploaded)

\* Search: the Rebuild Index button, then the Search button
SearchTab(r, event, query) ==
    IF r.docs = <<>> THEN r
    ELSE LET r1 == IF event = "rebuild" THEN rebuild_index(r) ELSE r
         IN IF event = "search" /\ query # <<>>
            THEN [r1 EXCEPT !.shown = [searched |-> TRUE, query |-> query,
                                       results |-> ActiveSearch(r1, query)]]
            ELSE r1

\* One run of the page script
PageRun(event, use_persistent, uploaded, query) ==
    SearchTab(UploadTab(SwapIndex(IndexControls(RunState(use_persistent), event),
                                  use_persistent),
                        event, uploaded),
              event, query)

\* The page has rendered its Search tab controls
SearchTabShown == docs # <<>>

\* The run an interaction triggers, and the state it leaves
Rerun(event, use_persistent, uploaded, query) ==
    LET r == PageRun(event, use_persistent, uploaded, query) IN
    /\ docs' = r.docs
    /\ dsess' = [reindex_on_upload |-> r.reindex, search_index |-> r.index]
    /\ dwidgets' = [use_persistent |-> use_persistent, uploaded |-> uploaded,
                    query |-> query]
    /\ ddisk' = [ddisk EXCEPT !.temp = r.temp, !.temp_index = r.temp_index]
    /\ dshown' = r.shown
    /\ dexpect' = r.expect
    /\ UNCHANGED notDocPage

\* The user drops a document into the Input directory
DropInput(name, content) ==
    /\ ddisk' = [ddisk EXCEPT !.input = (name :> content) @@ @]
    /\ UNCHANGED <<docs, dsess, dwidgets, dshown, dexpect, notDocPage>>

\* st.toggle("Use persistent index (temp/index)")
TogglePersistent ==
    Rerun("toggle_persistent", ~dwidgets.use_persistent, dwidgets.uploaded, dwidgets.query)

\* st.toggle("Reindex on upload")
ToggleReindex ==
    Rerun("toggle_reindex", dwidgets.use_persistent, dwidgets.uploaded, dwidgets.query)

\* st.button("Clear Temp Index")
ClickClearTempIndex ==
    Rerun("clear_temp_index", dwidgets.use_persistent, dwidgets.uploaded, dwidgets.query)

\* st.file_uploader: the user adds a document to the uploader
UploadDoc(name, content) ==
    Rerun("upload", dwidgets.use_persistent, (name :> content) @@ dwidgets.uploaded,
          dwidgets.query)

\* st.file_uploader: the user takes a document out of the uploader
RemoveUpload(name) ==
    /\ name \in DOMAIN dwidgets.uploaded
    /\ Rerun("upload", dwidgets.use_persistent,
             [n \in (DOMAIN dwidgets.uploaded) \ {name} |-> dwidgets.uploaded[n]],
             dwidgets.query)

\* st.button("Load from Input Directory")
ClickLoadInput ==
    Rerun("load_input", dwidgets.use_persistent, dwidgets.uploaded, dwidgets.query)

\* st.button("Rebuild Index")
ClickRebuild ==
    /\ SearchTabShown
    /\ Rerun("rebuild", dwidgets.use_persistent, dwidgets.uploaded, dwidgets.query)

\* st.text_input("Enter search query")
TypeQuery(query) ==
    /\ SearchTabShown
    /\ query # dwidgets.query
    /\ Rerun("query", dwidgets.use_persistent, dwidgets.uploaded, query)

\* st.button("Search")
ClickSearch ==
    /\ SearchTabShown
    /\ Rerun("search", dwidgets.use_persistent, dwidgets.uploaded, dwidgets.query)

\* The session state the first run sets up, before any interaction
InitDocPage ==
    /\ docs = <<>>
    /\ dsess = [reindex_on_upload |-> TRUE, search_index |-> MemoryIndex(<<>>)]
    /\ dwidgets = [use_persistent |-> FALSE, uploaded |-> <<>>, query |-> <<>>]
    /\ ddisk = [input |-> <<>>, temp |-> <<>>, temp_index |-> <<>>]
    /\ dshown = [searched |-> FALSE]
    /\ dexpect = <<>>

NextDocPage ==
    \/ \E t \in PageTexts : DropInput("d1", t)
    \/ TogglePersistent
    \/ ToggleReindex
    \/ ClickClearTempIndex
    \/ \E t \in PageTexts : UploadDoc("d2", t)
    \/ RemoveUpload("d2")
    \/ ClickLoadInput
    \/ ClickRebuild
    \/ \E q \in PageTexts \cup {<<>>} : TypeQuery(q)
    \/ ClickSearch

(***************************************************************************)
(* Claims about the document handler.                                      *)
(***************************************************************************)

\* C6: whenever a Search is evaluated, every document loaded while the
\* reindex toggle was on, and every document present at the last Rebuild
\* Index, is in the active index unless the index was cleared since: the
\* search returns each such document whose text contains the query.
C6_SearchFindsLoadedDocs ==
    dshown.searched =>
        \A n \in DOMAIN dexpect :
            IsSubstring(Folded(Trimmed(dshown.query)), Folded(dexpect[n]))
                => n \in DOMAIN dshown.results

(***************************************************************************)
(* pages/data_handler.py, Upload & Analysis.  As for the document page,    *)
(* one action per interaction, each the whole run of the script.  A run    *)
(* executes the script in a fresh namespace: a module-level function is    *)
(* bound only once the run has passed its def statement.                   *)
(***************************************************************************)
\* <stem>.<extension>
DataNames == {<<"a", "csv">>, <<"b", "json">>}

\* A file's rows: at most MaxDataLen rows, all alike
DataContents == {[i \in 1..n |-> v] : n \in 1..MaxDataLen, v \in 1..2}

\* size_mb >= large_mb, the size counted in rows
IsLarge(content) == Len(content) >= LargeSize

\* pd.read_csv(..., nrows=...): the head sample
HeadSample(content) == SubSeq(content, 1, Min(Len(content), SampleRows))

\* load_data_file: every row
Decode(content) == content

\* get_file_hash: content and modification time
get_file_hash(file) == <<file.content, file.mtime>>

\* The script line of def load_file_to_session
LoadFileToSessionDef == 491

\* The script lines that reach a call of load_file_to_session
LoadInputLine == 307
ProcessUploadsLine == 314
DisplayAnalysisLine == 340

\* A def statement further down the script has been executed when the run
\* is at a line.
Defined(def_line, at_line) == def_line < at_line

\* The state a run works on
DataRunState ==
    [data_files |-> data_files,
     file_hashes |-> file_hashes,
     temp |-> xdisk.temp,
     snap |-> xsnap,
     warned |-> {},
     load_full |-> {}]

\* check_file_changed(path): what it returns
FileChanged(r, path, file) ==
    /\ path \in DOMAIN r.file_hashes
    /\ get_file_hash(file) # r.file_hashes[path]

\* A tracking that keeps the hash of the first observation
TrackFirstOnly(r, path, file) ==
    IF path \notin DOMAIN r.file_hashes
    THEN [r EXCEPT !.file_hashes = (path :> get_file_hash(file)) @@ @]
    ELSE r

\* check_file_changed(path): the hash it tracks, on a first sight or a change
TrackChecked(r, path, file) ==
    IF path \notin DOMAIN r.file_hashes \/ FileChanged(r, path, file)
    THEN [r EXCEPT !.file_hashes = (path :> get_file_hash(file)) @@ @]
    ELSE r

\* load_file_to_session(file_path)
load_file_to_session(r, path, file) ==
    LET file_name == path[2]
        r1 == IF file_name \in DOMAIN r.data_files THEN TrackChecked(r, path, file) ELSE r
    IN IF file_name \in DOMAIN r.data_files /\ ~FileChanged(r, path, file)
       THEN r1
       ELSE [r1 EXCEPT
               !.data_files = (file_name :> [path |-> path,
                                             df |-> Decode(file.content),
                                             hash |-> get_file_hash(file),
                                             partial |-> FALSE,
                                             full_loaded |-> TRUE]) @@ @,
               !.snap = (file_name :> file.content) @@ @,
               !.file_hashes = (path :> get_file_hash(file)) @@ @]

\* A call of load_file_to_session from a line of the script, inside a try
\* whose handler reports the failure
CallLoad(r, path, file, at_line) ==
    IF Defined(LoadFileToSessionDef, at_line)
    THEN load_file_to_session(r, path, file)
    ELSE [r EXCEPT !.warned = @ \cup {path[2]}]

\* add_file_with_quick_preview(file_path)
add_file_with_quick_preview(r, path, file, at_line) ==
    IF path[2][2] = "csv" /\ IsLarge(file.content)
    THEN [r EXCEPT
            !.data_files = (path[2] :> [path |-> path,
                                        df |-> HeadSample(file.content),
                                        hash |-> None,
                                        partial |-> TRUE,
                                        full_loaded |-> FALSE]) @@ @,
            !.snap = (path[2] :> file.content) @@ @]
    ELSE CallLoad(r, path, file, at_line)

RECURSIVE AddEach(_, _, _, _, _)
\* add_file_with_quick_preview for each file of a listing
AddEach(r, dir, files, names, at_line) ==
    IF names = {} THEN r
    ELSE LET name == CHOOSE n \in names : TRUE
         IN AddEach(add_file_with_quick_preview(r, <<dir, name>>, files[name], at_line),
                    dir, files, names \ {name}, at_line)

\* load_from_input_dir(input_dir)
load_from_input_dir(r, at_line) ==
    AddEach(r, "input", xdisk.input, DOMAIN xdisk.input, at_line)

\* process_uploaded_files: each upload written to temp/<name>, then added
process_uploaded_files(r, uploaded) ==
    LET written == [n \in DOMAIN uploaded |-> [content |-> uploaded[n], mtime |-> clock]]
        r1 == [r EXCEPT !.temp = written @@ @]
    IN AddEach(r1, "temp", written, DOMAIN uploaded, ProcessUploadsLine)

\* The file an entry's path names
FileAt(r, path) == IF path[1] = "temp" THEN r.temp[path[2]] ELSE xdisk.input[path[2]]

\* display_file_analysis: the Load full file button of a partial entry
display_file_analysis(r, event) ==
    IF /\ event[1] = "load_full"
       /\ event[2] \in DOMAIN r.data_files
       /\ r.data_files[event[2]].partial
       /\ ~r.data_files[event[2]].full_loaded
    THEN LET path == r.data_files[event[2]].path
         IN [CallLoad(r, path, FileAt(r, path), DisplayAnalysisLine)
                EXCEPT !.load_full = {event[2]}]
    ELSE r

\* Upload & Analysis: auto-load, the Load from Input Directory button, the
\* uploader, the analysis panels
UploadAnalysisTab(r, event, auto_load, uploaded) ==
    LET r1 == IF auto_load /\ xdisk.input # <<>>
              THEN load_from_input_dir(r, LoadInputLine) ELSE r
        r2 == IF event[1] = "load_input" THEN load_from_input_dir(r1, LoadInputLine) ELSE r1
        r3 == IF uploaded # <<>> THEN process_uploaded_files(r2, uploaded) ELSE r2
    IN IF r3.data_files # <<>> THEN display_file_analysis(r3, event) ELSE r3

\* The run an interaction triggers, and the state it leaves
DataRerun(event, auto_load, uploaded) ==
    LET r == UploadAnalysisTab(DataRunState, event, auto_load, uploaded) IN
    /\ data_files' = r.data_files
    /\ file_hashes' = r.file_hashes
    /\ xdisk' = [xdisk EXCEPT !.temp = r.temp]
    /\ xwidgets' = [auto_load |-> auto_load, uploaded |-> uploaded]
    /\ xshown' = [event |-> event[1], warned |-> r.warned, load_full |-> r.load_full]
    /\ xsnap' = r.snap
    /\ UNCHANGED notDataPage

\* The user drops a new file into the Input directory
DropInputData(name, content) ==
    /\ name \notin DOMAIN xdisk.input
    /\ xdisk' = [xdisk EXCEPT !.input = (name :> [content |-> content, mtime |-> clock]) @@ @]
    /\ UNCHANGED <<data_files, file_hashes, xwidgets, xshown, xsnap, notDataPage>>

\* st.checkbox("Auto-load new files")
ToggleAutoLoad ==
    DataRerun(<<"auto_load">>, ~xwidgets.auto_load, xwidgets.uploaded)

\* st.button("Load from Input Directory")
ClickLoadInputData ==
    DataRerun(<<"load_input">>, xwidgets.auto_load, xwidgets.uploaded)

\* st.file_uploader: the user adds a file to the uploader
UploadData(name, content) ==
    /\ IF name \in DOMAIN xwidgets.uploaded THEN xwidgets.uploaded[name] # content ELSE TRUE
    /\ DataRerun(<<"upload">>, xwidgets.auto_load, (name :> content) @@ xwidgets.uploaded)

\* st.file_uploader: the user takes a file out of the uploader
RemoveUploadData(name) ==
    /\ name \in DOMAIN xwidgets.uploaded
    /\ DataRerun(<<"upload">>, xwidgets.auto_load,
                 [n \in (DOMAIN xwidgets.uploaded) \ {name} |-> xwidgets.uploaded[n]])

\* st.button("Load full file") in the panel of a partial entry
ClickLoadFull(name) ==
    /\ name \in DOMAIN data_files
    /\ data_files[name].partial /\ ~data_files[name].full_loaded
    /\ DataRerun(<<"load_full", name>>, xwidgets.auto_load, xwidgets.uploaded)

\* The session state the first run sets up; auto-load is on by default
InitDataPage ==
    /\ data_files = <<>>
    /\ file_hashes = <<>>
    /\ xdisk = [input |-> <<>>, temp |-> <<>>]
    /\ xwidgets = [auto_load |-> TRUE, uploaded |-> <<>>]
    /\ xshown = [event |-> "first", warned |-> {}, load_full |-> {}]
    /\ xsnap = <<>>

NextDataPage ==
    \/ \E c \in DataContents : DropInputData(<<"a", "csv">>, c)
    \/ ToggleAutoLoad
    \/ ClickLoadInputData
    \/ \E n \in DataNames, c \in DataContents : UploadData(n, c)
    \/ \E n \in DataNames : RemoveUploadData(n)
    \/ \E n \in DataNames : ClickLoadFull(n)
    \/ Tick

(***************************************************************************)
(* Claims about the data handler.                                          *)
(***************************************************************************)

\* C9: once the page has processed the upload of a file, the loaded-file map
\* has an entry under the file's name: the full payload with partial = false
\* and full_loaded = true for a file that is no CSV or is below the
\* large-file threshold, a head sample with partial = true and
\* full_loaded = false for a CSV at or above it.
C9_UploadLeavesEntry ==
    \A n \in DOMAIN xwidgets.uploaded :
        LET content == xwidgets.uploaded[n] IN
        /\ n \in DOMAIN data_files
        /\ IF n[2] = "csv" /\ IsLarge(content)
           THEN /\ data_files[n].df = HeadSample(content)
                /\ data_files[n].partial /\ ~data_files[n].full_loaded
           ELSE /\ data_files[n].df = Decode(content)
                /\ ~data_files[n].partial /\ data_files[n].full_loaded

\* C10: the Load full file action on a partial entry leaves the entry with
\* the fully decoded payload of its file, partial = false and
\* full_loaded = true.
C10_LoadFullCompletes ==
    \A n \in xshown.load_full :
        /\ n \in DOMAIN data_files
        /\ ~data_files[n].partial /\ data_files[n].full_loaded
        /\ data_files[n].df = Decode(xsnap[n])

\* The file an entry's path names, as it is on disk
OnDisk(path) == IF path[1] = "temp" THEN xdisk.temp[path[2]] ELSE xdisk.input[path[2]]

\* C2: no action has written to the path of a loaded source: the file every
\* entry's path names still has the content it had when the entry was loaded.
C2_SourcesKeepContent ==
    \A n \in DOMAIN data_files : OnDisk(data_files[n].path).content = xsnap[n]

(***************************************************************************)
(* pages/data_handler.py, Edit & Clean: the Save Edits button, the         *)
(* cleaning handlers and save_edited_file, each as the code that runs when *)
(* its button is pressed for the selected file.                            *)
(***************************************************************************)
\* The files the Edit & Clean steps work on
EditNames == {<<"a", "csv">>, <<"c", "csv">>}

\* The buttons of handle_remove_operations, handle_standardization and
\* handle_format_operations
CleaningOps == {"remove_empty_rows_columns", "remove_duplicates", "remove_characters",
                "standardize_phone_numbers", "standardize_urls", "trim_whitespace",
                "handle_missing_values", "standardize_format"}

\* df.head(1000): the rows the inline editor shows
EditorRows == 1000

EditorHead(df) == SubSeq(df, 1, Min(Len(df), EditorRows))

\* The frame a cleaning operation of data_ops returns for a payload: a new
\* frame, the operation applied to a copy of the payload
Cleaned(op, df) == [op |-> op, of |-> df]

\* A staging that replaces every staged edit
StageAll(staged, file_name, edited_df) ==
    [n \in (DOMAIN staged) \cup {file_name} |-> edited_df]

\* st.session_state.edits_staged[file_name] = cleaned_df
Stage(staged, file_name, edited_df) == (file_name :> edited_df) @@ staged

\* del st.session_state.edits_staged[file_name]
Unstage(staged, file_name) == [n \in (DOMAIN staged) \ {file_name} |-> staged[n]]

\* st.button("Save Edits") under the inline editor, the editor holding edited_df
SaveEdits(edit_file, edited_df) ==
    /\ edit_file \in DOMAIN data_files
    /\ LET df == data_files[edit_file].df IN
         /\ edits_staged' = IF edited_df # EditorHead(df)
                            THEN Stage(edits_staged, edit_file, edited_df)
                            ELSE edits_staged
         /\ eshown' = [op |-> "save_edits", file |-> edit_file,
                       done |-> edited_df # EditorHead(df)]
    /\ UNCHANGED <<fileVars, dataPageVars, notEdit>>

\* A button of one of the cleaning handlers, called with the loaded payload
\* of the selected file.  The operation returns a new frame and the handler
\* assigns nothing but the staged edit.
CleanFile(op, file_name) ==
    /\ file_name \in DOMAIN data_files
    /\ LET df == data_files[file_name].df
           cleaned_df == Cleaned(op, df)
       IN /\ edits_staged' = Stage(edits_staged, file_name, cleaned_df)
          /\ eshown' = [op |-> op, file |-> file_name, done |-> TRUE]
    /\ UNCHANGED <<fileVars, dataPageVars, notEdit>>

\* save_edited_file(file_name, original_df), called by the Save As Copy
\* button; ok: save_data_file returns rather than raises
SaveAsCopy(file_name, ok) ==
    /\ file_name \in DOMAIN data_files
    /\ LET original_df == data_files[file_name].df
           edited_df == IF file_name \in DOMAIN edits_staged
                        THEN edits_staged[file_name] ELSE original_df
           extension == data_files[file_name].path[2][2]
           target == SaveTarget(fs, clock, "output", extension)
       IN IF ok
          THEN /\ fs' = Write(fs, target, edited_df)
               /\ lastSave' = [called |-> TRUE, path |-> target,
                               existed |-> Exists(fs, target)]
               /\ edits_staged' = Unstage(edits_staged, file_name)
          ELSE UNCHANGED <<fs, lastSave, edits_staged>>
    /\ eshown' = [op |-> "save_as_copy", file |-> file_name, done |-> ok]
    /\ UNCHANGED <<clock, mv, dataPageVars, notEdit>>

\* A large CSV file is uploaded: the run leaves a partial entry for it
UploadLargeCsv(name, content) ==
    /\ IsLarge(content)
    /\ UploadData(name, content)

NextEdit ==
    \/ \E n \in EditNames, c \in DataContents : UploadLargeCsv(n, c)
    \/ \E n \in EditNames, e \in DataContents : SaveEdits(n, e)
    \/ \E op \in CleaningOps, n \in EditNames : CleanFile(op, n)

\* Inline edits and their saving
NextSaveCopy ==
    \/ \E n \in EditNames, c \in DataContents : UploadLargeCsv(n, c)
    \/ \E n \in EditNames, e \in DataContents : SaveEdits(n, e)
    \/ \E n \in EditNames, ok \in BOOLEAN : SaveAsCopy(n, ok)

C12_SaveAsCopyNamesSource ==
    [][(eshown'.op = "save_as_copy" /\ eshown'.done) =>
          LET file_name == eshown'.file
              target == lastSave'.path
          IN /\ target[1] = "output"
             /\ target[2].ext = file_name[2]
             /\ target[2].base = file_name[1]
             /\ ~Exists(fs, target) /\ Exists(fs', target)
             /\ fs'[target] = IF file_name \in DOMAIN edits_staged
                              THEN edits_staged[file_name]
                              ELSE data_files[file_name].df
             /\ file_name \notin DOMAIN edits_staged'
    ]_<<fs, edits_staged, eshown>>

(***************************************************************************)
(* pages/data_handler.py, handle_merge_operations: one action per          *)
(* interaction with the Merge Two Tables form, each a run of the handler.  *)
(* st.button returns True only in the run its own click triggers.          *)
(***************************************************************************)
JoinTypes == {"inner", "outer"}

\* merge_dataframes(df1, df2, on, how, ...): a new frame
merge_dataframes(df1, df2, how) == [op |-> how, left |-> df1, right |-> df2]

NoMerge == [op |-> "none"]

\* save_merged_result(merged_df, file1, file2): the Output file it writes
save_merged_result(f, now, merged_df) ==
    Write(f, SaveTarget(f, now, "output", "xlsx"), merged_df)

\* handle_merge_operations() in a run where the buttons return
\* merge_execute and save_merged
handle_merge_operations(files, w, merge_execute, save_merged) ==
    IF \/ Cardinality(DOMAIN files) < 2
       \/ w.file1 \notin DOMAIN files
       \/ w.file2 \notin DOMAIN files
    THEN [merged |-> NoMerge, save_offered |-> FALSE, save_reached |-> FALSE, fs |-> fs]
    ELSE IF merge_execute
         THEN LET merged_df == merge_dataframes(files[w.file1].df, files[w.file2].df, w.how)
              IN [merged |-> merged_df,
                  save_offered |-> TRUE,
                  save_reached |-> save_merged,
                  fs |-> IF save_merged THEN save_merged_result(fs, clock, merged_df) ELSE fs]
         ELSE [merged |-> NoMerge, save_offered |-> FALSE, save_reached |-> FALSE, fs |-> fs]

\* The run an interaction with the form triggers
MergeRerun(event, w, merge_execute, save_merged) ==
    LET r == handle_merge_operations(data_files, w, merge_execute, save_merged) IN
    /\ mwidgets' = w
    /\ mshown' = [event |-> event, merged |-> r.merged, save_offered |-> r.save_offered,
                  save_reached |-> r.save_reached,
                  pending |-> IF event = "save_merged" THEN mshown.merged ELSE NoMerge]
    /\ fs' = r.fs
    /\ UNCHANGED <<clock, lastSave, mv, notMerge>>

\* st.selectbox: the files to merge and the join type
SelectMerge(file1, file2, how) ==
    /\ file1 # file2
    /\ MergeRerun("select", [file1 |-> file1, file2 |-> file2, how |-> how], FALSE, FALSE)

\* st.button("Merge Tables")
ClickMergeTables ==
    MergeRerun("merge_execute", mwidgets, TRUE, FALSE)

\* st.button("Save Merged Result"), on screen below the preview of a merge
ClickSaveMerged ==
    /\ mshown.save_offered
    /\ MergeRerun("save_merged", mwidgets, FALSE, TRUE)

NextMerge ==
    \/ \E n \in EditNames, c \in DataContents : UploadLargeCsv(n, c)
    \/ \E f1, f2 \in EditNames, how \in JoinTypes : SelectMerge(f1, f2, how)
    \/ ClickMergeTables
    \/ ClickSaveMerged

\* C13: after a successful Merge Tables, pressing Save Merged Result writes
\* the merged result as a spreadsheet file into the Output directory: the
\* run the save button triggers reaches the save handler.
C13_SaveMergedWrites ==
    mshown.event = "save_merged" =>
        /\ mshown.save_reached
        /\ \E p \in DOMAIN fs :
              p[1] = "output" /\ p[2].ext = "xlsx" /\ fs[p] = mshown.pending

(***************************************************************************)
(* pages/data_handler.py, handle_conversion_operations: the batch of       *)
(* "Convert individually", one step per iteration of its loop.             *)
(***************************************************************************)
TargetFormats == {"csv", "xlsx"}

\* The orders in which the files of a set can be selected
Selections(names) ==
    {s \in UNION {[1..n -> names] : n \in 1..Cardinality(names)} :
        \A i, j \in 1..Len(s) : i # j => s[i] # s[j]}

NoBatch ==
    [pc |-> "idle", selected |-> <<>>, target_format |-> "csv", unreadable |-> {},
     i |-> 1, successful |-> 0, failed |-> <<>>, attempted |-> <<>>]

\* ConversionRegistry.convert_file: the Output file a conversion writes
convert_file(f, now, file_path, to_type) ==
    LET from_type == file_path[2][2]
        content == xdisk.temp[file_path[2]].content
    IN IF from_type = to_type
       THEN Write(f, Path("output", generate_timestamped_filename(f, now, "output",
                                                                 file_path[2][1], to_type)),
                  content)
       ELSE Write(f, SaveTarget(f, now, "output", to_type), Decode(content))

\* The loop index after an iteration whose conversion raised, were the
\* batch to stop there
StopBatch(i, total) == total + 1

\* The loop index after an iteration whose conversion raised: the except
\* clause records the failure and the loop goes on
AfterFailure(i, total) == i + 1

\* st.button("Convert Files") in the mode "Convert individually"; unreadable:
\* the selected files a conversion cannot read
ClickConvertFiles(selected_files, target_format, unreadable) ==
    /\ cv.pc # "loop"
    /\ cv' = [NoBatch EXCEPT !.pc = "loop", !.selected = selected_files,
                            !.target_format = target_format, !.unreadable = unreadable]
    /\ UNCHANGED <<fileVars, notConvert>>

\* One iteration: for i, file_name in enumerate(selected_files)
ConvertStep ==
    /\ cv.pc = "loop"
    /\ cv.i <= Len(cv.selected)
    /\ LET file_name == cv.selected[cv.i]
           file_path == data_files[file_name].path
       IN IF file_name \in cv.unreadable
          THEN /\ cv' = [cv EXCEPT !.failed = Append(@, file_name),
                                  !.attempted = Append(@, file_name),
                                  !.i = AfterFailure(cv.i, Len(cv.selected))]
               /\ fs' = fs
          ELSE /\ cv' = [cv EXCEPT !.successful = @ + 1,
                                  !.attempted = Append(@, file_name),
                                  !.i = @ + 1]
               /\ fs' = convert_file(fs, clock, file_path, cv.target_format)
    /\ UNCHANGED <<clock, lastSave, mv, notConvert>>

\* The loop is over: the success count and the failures are reported
ConvertEnd ==
    /\ cv.pc = "loop"
    /\ cv.i > Len(cv.selected)
    /\ cv' = [cv EXCEPT !.pc = "done"]
    /\ UNCHANGED <<fileVars, notConvert>>

\* A file is loaded while no batch is running
UploadBetweenBatches(name, content) ==
    /\ cv.pc # "loop"
    /\ UploadLargeCsv(name, content)

NextConvert ==
    \/ \E n \in EditNames, c \in DataContents : UploadBetweenBatches(n, c)
    \/ \E s \in Selections(DOMAIN data_files), t \in TargetFormats,
          u \in SUBSET (DOMAIN data_files) : ClickConvertFiles(s, t, u)
    \/ ConvertStep
    \/ ConvertEnd

\* The selected files a conversion cannot read, in selection order
Unreadable(selected, unreadable) ==
    SelectSeq(selected, LAMBDA n : n \in unreadable)

TrackedPath == <<"temp", <<"a", "csv">>>>

\* What Path.stat() raises on is no file: get_file_hash returns the hash of
\* the error message
NoFile == [content |-> <<>>, mtime |-> -1]

FileOn(disk, path) ==
    IF path[2] \in DOMAIN disk.temp THEN disk.temp[path[2]] ELSE NoFile

\* odd: whether the calls made so far are odd in number
NoCall == [op |-> "none", changed |-> FALSE, hash |-> None, file_count |-> 0, odd |-> FALSE]


\* The file at the path is written
ModifyFile(content) ==
    /\ xdisk' = [xdisk EXCEPT !.temp = (TrackedPath[2] :> [content |-> content,
                                                          mtime |-> clock]) @@ @]
    /\ UNCHANGED <<clock, data_files, file_hashes, xwidgets, xshown, xsnap,
                   cacheVars, notCache>>

\* The file at the path is deleted
DeleteFile ==
    /\ TrackedPath[2] \in DOMAIN xdisk.temp
    /\ xdisk' = [xdisk EXCEPT !.temp = <<>>]
    /\ UNCHANGED <<clock, data_files, file_hashes, xwidgets, xshown, xsnap,
                   cacheVars, notCache>>

\* The clock moves on while the cache utilities are in use
CacheTick ==
    /\ clock < MaxClock
    /\ clock' = clock + 1
    /\ UNCHANGED <<dataPageVars, cacheVars, notCache>>

\* check_file_changed(file_path)
check_file_changed ==
    LET file == FileOn(xdisk, TrackedPath)
        r == [file_hashes |-> file_hashes]
    IN /\ cret' = [NoCall EXCEPT !.op = "check_file_changed",
                                 !.changed = FileChanged(r, TrackedPath, file),
                                 !.hash = get_file_hash(file),
                                 !.odd = ~cret.odd]
       /\ file_hashes' = TrackChecked(r, TrackedPath, file).file_hashes
       /\ UNCHANGED <<clock, data_files, xdisk, xwidgets, xshown, xsnap, memo, notCache>>

\* A call of a function memoized by st.cache_data, with the file's hash in
\* its key
CachedCall ==
    /\ memo' = memo \cup {<<TrackedPath, get_file_hash(FileOn(xdisk, TrackedPath))>>}
    /\ cret' = [NoCall EXCEPT !.op = "cached_call", !.odd = ~cret.odd]
    /\ UNCHANGED <<clock, dataPageVars, notCache>>

NextTracker ==
    \/ \E c \in DataContents : ModifyFile(c)
    \/ DeleteFile
    \/ CacheTick
    \/ check_file_changed

\* C15: on one path, the first check_file_changed reports unchanged; a later
\* call reports changed exactly if the file's hash differs from the hash
\* observed at the previous call; after every call the tracked hash is the
\* file's current hash, so that of two calls with no modification in
\* between the second reports unchanged.
C15_ChangedIffHashDiffers ==
    [][cret'.op = "check_file_changed" =>
          LET current == get_file_hash(FileOn(xdisk, TrackedPath)) IN
          /\ cret'.changed = (cret.op = "check_file_changed" /\ current # cret.hash)
          /\ TrackedPath \in DOMAIN file_hashes'
          /\ file_hashes'[TrackedPath] = current
          /\ (cret.op = "check_file_changed" /\ cret.hash = current) => ~cret'.changed
    ]_cret

\* A call has reported a change: the file was written after an earlier call
C15_Witness ==
    /\ cret.op = "check_file_changed"
    /\ cret.changed
    /\ file_hashes[TrackedPath] = get_file_hash(FileOn(xdisk, TrackedPath))

\* clear_all_cache(): both caches are cleared, then st.rerun() ends the run
\* by raising the rerun request
clear_all_cache(s) == [s EXCEPT !.memo = {}, !.rerun = TRUE]

\* clear_cache(): the statements after clear_all_cache() run only if that
\* call returns
clear_cache(s) ==
    LET s1 == clear_all_cache(s)
    IN IF s1.rerun THEN s1 ELSE [s1 EXCEPT !.file_hashes = <<>>]

\* get_cache_stats()["file_count"]
FileCount(hashes) == Cardinality(DOMAIN hashes)

\* st.button("Clear Cache") of the settings page, and the statistics the
\* page shows when it is rendered next
ClickClearCache ==
    LET s == clear_cache([memo |-> memo, file_hashes |-> file_hashes, rerun |-> FALSE]) IN
    /\ memo' = s.memo
    /\ file_hashes' = s.file_hashes
    /\ cret' = [NoCall EXCEPT !.op = "clear_cache",
                              !.file_count = FileCount(s.file_hashes),
                              !.odd = ~cret.odd]
    /\ UNCHANGED <<clock, data_files, xdisk, xwidgets, xshown, xsnap, notCache>>

NextCache ==
    \/ \E c \in DataContents : ModifyFile(c)
    \/ check_file_changed
    \/ CachedCall
    \/ ClickClearCache

\* C16: after Clear Cache the memoized cache and the file-hash tracker are
\* both empty: the page rendered next shows 0 tracked files and no path has
\* a tracked hash.
C16_ClearCacheEmptiesBoth ==
    cret.op = "clear_cache" =>
        /\ memo = {}
        /\ cret.file_count = 0
        /\ file_hashes = <<>>

(***************************************************************************)
(* utils/logging.py: get_logger and ActivityLogger.log over a log          *)
(* directory whose operations can fail.  A log file is its header and the  *)
(* number of its rows; the date is the clock, lg.second the time of day.   *)
(***************************************************************************)
MaxSecond == 1

LogDirs == {"logs", "custom"}

Scripts == {"main", "data_handler", "document_handler"}

\* The file-system operation of a log call that fails, if it is made
Faults == {"none", "stat", "rename", "header", "append"}

NoLogger == [made |-> 0, log_dir |-> "", current_log_file |-> <<>>]

\* activity_<date>.csv
DayFile(today) == <<"activity", today>>

\* activity_<date>_<time>.csv
RotatedFile(today, second) == <<"activity", today, second>>

\* stat().st_size, in rows
FileSize(file) == file.rows + (IF file.header THEN 1 ELSE 0)

HeaderMissing(files, name) == name \notin DOMAIN files \/ ~files[name].header

\* _ensure_header(): the file is created, or recreated on a header mismatch
EnsureHeader(files, name) ==
    IF HeaderMissing(files, name)
    THEN (name :> [header |-> TRUE, rows |-> 0]) @@ files
    ELSE files

\* _check_rotation(), on s = [files, current, raised, fallback]; replaces:
\* Path.rename onto an existing file replaces it (as on Unix) or raises
\* FileExistsError (as on Windows)
CheckRotation(s, today, second, fault, replaces) ==
    IF s.current \notin DOMAIN s.files THEN s
    ELSE IF fault = "stat" THEN [s EXCEPT !.raised = TRUE]
    ELSE IF FileSize(s.files[s.current]) <= MaxLogRows THEN s
    ELSE IF fault = "rename" THEN [s EXCEPT !.raised = TRUE]
    ELSE IF RotatedFile(today, second) \in DOMAIN s.files /\ ~replaces
    THEN [s EXCEPT !.raised = TRUE]
    ELSE LET renamed == (RotatedFile(today, second) :> s.files[s.current])
                          @@ [n \in (DOMAIN s.files) \ {s.current} |-> s.files[n]]
             s1 == [s EXCEPT !.files = renamed, !.current = DayFile(today)]
         IN IF HeaderMissing(renamed, DayFile(today)) /\ fault = "header"
            THEN [s1 EXCEPT !.raised = TRUE]
            ELSE [s1 EXCEPT !.files = EnsureHeader(renamed, DayFile(today))]

\* log(): if new_log_file != self.current_log_file
SwitchDay(s, today, fault) ==
    IF s.raised \/ DayFile(today) = s.current THEN s
    ELSE LET s1 == [s EXCEPT !.current = DayFile(today)]
         IN IF HeaderMissing(s.files, DayFile(today)) /\ fault = "header"
            THEN [s1 EXCEPT !.raised = TRUE]
            ELSE [s1 EXCEPT !.files = EnsureHeader(s.files, DayFile(today))]

\* log(): the row is appended inside try/except; open(..., 'a') creates a
\* missing file
AppendRow(s, fault) ==
    IF s.raised THEN s
    ELSE IF fault = "append" THEN [s EXCEPT !.fallback = TRUE]
    ELSE IF s.current \in DOMAIN s.files
         THEN [s EXCEPT !.files[s.current].rows = @ + 1]
         ELSE [s EXCEPT !.files = (s.current :> [header |-> FALSE, rows |-> 1]) @@ @]

\* ActivityLogger.log(...)
Log(fault, replaces) ==
    /\ lg.logger.made > 0
    /\ LET s0 == [files |-> lg.files, current |-> lg.logger.current_log_file,
                  raised |-> FALSE, fallback |-> FALSE]
           s == AppendRow(SwitchDay(CheckRotation(s0, clock, lg.second, fault, replaces),
                                    clock, fault), fault)
       IN /\ lg' = [lg EXCEPT !.files = s.files, !.logger.current_log_file = s.current]
          /\ lret' = [op |-> "log", fault |-> fault, raised |-> s.raised,
                      fallback |-> s.fallback, odd |-> ~lret.odd]
    /\ UNCHANGED <<clock, notLog>>

\* get_logger(log_dir), called at the top of a script: main.py passes the
\* configured logs directory, the page scripts pass nothing
get_logger(script) ==
    LET log_dir == IF script = "main" THEN lg.configured ELSE "logs"
        logger == IF lg.logger.made = 0
                  THEN [made |-> 1, log_dir |-> log_dir, current_log_file |-> DayFile(clock)]
                  ELSE lg.logger
    IN /\ lg' = [lg EXCEPT !.logger = logger,
                           !.files = IF lg.logger.made = 0
                                     THEN EnsureHeader(lg.files, DayFile(clock)) ELSE @,
                           !.returned = @ \cup {logger.log_dir}]
       /\ lret' = [op |-> "get_logger", fault |-> "none", raised |-> FALSE,
                   fallback |-> FALSE, odd |-> lret.odd]
       /\ UNCHANGED <<clock, notLog>>

\* directories.logs is set in the configuration before the process starts
SetLogsDirectory(dir) ==
    /\ lg.logger.made = 0
    /\ lg.configured # dir
    /\ lg' = [lg EXCEPT !.configured = dir]
    /\ UNCHANGED <<clock, lret, notLog>>

\* The date changes
LogTick ==
    /\ clock < MaxClock
    /\ clock' = clock + 1
    /\ lg' = [lg EXCEPT !.second = 0]
    /\ UNCHANGED <<lret, notLog>>

\* A second passes within the day
LogSecond ==
    /\ lg.second < MaxSecond
    /\ lg' = [lg EXCEPT !.second = @ + 1]
    /\ UNCHANGED <<clock, lret, notLog>>

NextLog ==
    \/ \E d \in LogDirs : SetLogsDirectory(d)
    \/ \E s \in Scripts : get_logger(s)
    \/ \E f \in Faults, replaces \in BOOLEAN : Log(f, replaces)
    \/ LogTick

\* C17: a call of ActivityLogger.log never propagates an exception,
\* whatever fails in the file system while it checks or performs rotation,
\* switches to the day's file, writes the header or appends the row; the
\* failure is only reported on the fallback channel.
C17_LogNeverRaises ==
    lret.op = "log" =>
        /\ ~lret.raised
        /\ lret.fallback = (lret.fault = "append")

\* C18: in one process, whichever script calls get_logger first, every call
\* returns the same ActivityLogger, and it writes into the logs directory
\* the application shell resolves from the configuration.
C18_OneLoggerInConfiguredDir ==
    /\ lg.logger.made <= 1
    /\ Cardinality(lg.returned) <= 1
    /\ \A dir \in lg.returned : dir = lg.configured

(***************************************************************************)
(* utils/config.py.  A document is a tree: a function from the paths of    *)
(* its nodes to "dict" for a mapping or to the value of a leaf.            *)
(***************************************************************************)
Segments == {"directories", "input"}

Leaves == {"x", "y"}

Leaf(v) == (<<>> :> v)

EmptyDict == (<<>> :> "dict")

\* The dot-separated keys: key.split('.')
DottedKeys == UNION {[1..n -> Segments] : n \in 1..MaxKeyLen}

IsPrefix(p, q) == Len(p) <= Len(q) /\ SubSeq(q, 1, Len(p)) = p

\* The value at a path: a leaf, or the mapping with all below it
Sub(doc, p) ==
    [q \in {SubSeq(r, Len(p) + 1, Len(r)) : r \in {r \in DOMAIN doc : IsPrefix(p, r)}}
        |-> doc[p \o q]]

\* config[k] = value: what was at the path is replaced
Graft(doc, p, value) ==
    [r \in {r \in DOMAIN doc : ~IsPrefix(p, r)} \cup {p \o q : q \in DOMAIN value}
        |-> IF IsPrefix(p, r) THEN value[SubSeq(r, Len(p) + 1, Len(r))] ELSE doc[r]]

\* _get_default_config()
DefaultConfig ==
    (<<>> :> "dict") @@ (<<"directories">> :> "dict")
        @@ (<<"directories", "input">> :> "x")

RECURSIVE GetFrom(_, _, _, _)
\* Config.get: for k in keys, from the node the walk is at
GetFrom(doc, at, keys, default) ==
    IF keys = <<>> THEN Sub(doc, at)
    ELSE IF doc[at] = "dict" /\ Append(at, Head(keys)) \in DOMAIN doc
         THEN GetFrom(doc, Append(at, Head(keys)), Tail(keys), default)
         ELSE default

\* Config.get(key, default)
ConfigGet(doc, keys, default) == GetFrom(doc, <<>>, keys, default)

RECURSIVE SetFrom(_, _, _, _)
\* Config.set: for k in keys[:-1], then config[keys[-1]] = value.  A node
\* that is no mapping supports neither the membership test followed by an
\* item assignment nor the final item assignment: TypeError.
SetFrom(doc, at, keys, value) ==
    IF doc[at] # "dict" THEN [doc |-> doc, raised |-> TRUE]
    ELSE IF Len(keys) = 1
         THEN [doc |-> Graft(doc, Append(at, keys[1]), value), raised |-> FALSE]
         ELSE LET next == Append(at, Head(keys))
                  doc1 == IF next \in DOMAIN doc THEN doc ELSE Graft(doc, next, EmptyDict)
              IN SetFrom(doc1, next, Tail(keys), value)

\* Config.set(key, value)
ConfigSet(doc, keys, value) == SetFrom(doc, <<>>, keys, value)

NoConfigCall ==
    [op |-> "none", keys |-> <<>>, value |-> EmptyDict, raised |-> FALSE,
     before |-> DefaultConfig, config_file |-> [kind |-> "absent"],
     template |-> [kind |-> "absent"]]

\* config.set(key, value)
Set(keys, value) ==
    /\ LET s == ConfigSet(cfg.doc, keys, value) IN
         /\ cfg' = [cfg EXCEPT !.doc = s.doc]
         /\ kret' = [NoConfigCall EXCEPT !.op = "set", !.keys = keys, !.value = value,
                                         !.raised = s.raised, !.before = cfg.doc]
    /\ UNCHANGED notConfig

\* config.get(key, default)
Get(keys, default) ==
    /\ kret' = [NoConfigCall EXCEPT !.op = "get", !.keys = keys,
                                    !.value = ConfigGet(cfg.doc, keys, default),
                                    !.before = cfg.doc]
    /\ UNCHANGED <<cfg, notConfig>>

NextConfigAccess ==
    \/ \E k \in DottedKeys, v \in {Leaf("y"), EmptyDict} : Set(k, v)
    \/ \E k \in DottedKeys : Get(k, Leaf("default"))

\* The keys that are neither a prefix nor an extension of a key
Unrelated(keys) == {k \in DottedKeys : ~IsPrefix(k, keys) /\ ~IsPrefix(keys, k)}

\* C19: set(k, v) completes on every document, creating the intermediate
\* mappings; afterwards get(k, d) is v whatever d, and get of a key that is
\* neither a prefix nor an extension of k is what it was before.
C19_SetThenGet ==
    kret.op = "set" =>
        /\ ~kret.raised
        /\ ConfigGet(cfg.doc, kret.keys, Leaf("default")) = kret.value
        /\ \A k \in Unrelated(kret.keys) :
              ConfigGet(cfg.doc, k, Leaf("default"))
                  = ConfigGet(kret.before, k, Leaf("default"))

\* The documents a file can hold
FileDocs == {DefaultConfig, EmptyDict, Graft(EmptyDict, <<"input">>, Leaf("y"))}

\* A file: absent, unparsable, or the JSON of a document
FileStates ==
    {[kind |-> "absent"], [kind |-> "corrupt"]} \cup {[kind |-> "json", doc |-> d] : d \in FileDocs}

\* _create_from_template(); writable: the config path can be written
create_from_template(c, writable) ==
    IF c.template.kind = "absent" THEN [c EXCEPT !.doc = DefaultConfig]
    ELSE IF c.template.kind = "json" /\ writable
         THEN [c EXCEPT !.doc = c.template.doc, !.config_file = c.template]
         ELSE [c EXCEPT !.doc = EmptyDict]

\* _load_config()
load_config(c, writable) ==
    IF c.config_file.kind = "json" THEN [c EXCEPT !.doc = c.config_file.doc]
    ELSE create_from_template(c, writable)

\* Config(): the process starts and constructs its configuration
Construct(writable) ==
    /\ cfg' = load_config([cfg EXCEPT !.doc = EmptyDict], writable)
    /\ kret' = [NoConfigCall EXCEPT !.op = "construct", !.config_file = cfg.config_file,
                                    !.template = cfg.template]
    /\ UNCHANGED notConfig

\* Between two runs of the process the config file is edited or removed
WriteConfigFile(file) ==
    /\ cfg.config_file # file
    /\ cfg' = [cfg EXCEPT !.config_file = file]
    /\ UNCHANGED <<kret, notConfig>>

\* Between two runs of the process the template is edited or removed
WriteTemplate(file) ==
    /\ cfg.template # file
    /\ cfg' = [cfg EXCEPT !.template = file]
    /\ UNCHANGED <<kret, notConfig>>

NextConfigLoad ==
    \/ \E f \in FileStates : WriteConfigFile(f)
    \/ \E f \in FileStates : WriteTemplate(f)
    \/ \E w \in BOOLEAN : Construct(w)

\* C20: a constructed Config holds the parsed config file if that file
\* exists and parses, else the template's document if the template yields
\* one, else the hard-coded defaults; construction never raises.
C20_LoadFallsBackInOrder ==
    kret.op = "construct" =>
        /\ ~kret.raised
        /\ cfg.doc = IF kret.config_file.kind = "json" THEN kret.config_file.doc
                     ELSE IF kret.template.kind = "json" THEN kret.template.doc
                     ELSE DefaultConfig

(***************************************************************************)
(* services/conversions.py: ConversionRegistry.convert_file and            *)
(* _generic_convert, one step per call.                                    *)
(***************************************************************************)
\* The spellings in which a caller passes a format
FormatSpellings == {"csv", "CSV", ".xlsx", "xlsx", "xyz"}

\* from_type.lower().lstrip('.')
NormalFormat(t) ==
    CASE t = "CSV" -> "csv"
      [] t = ".xlsx" -> "xlsx"
      [] OTHER -> t

\* cls._converters after import: csv_to_xlsx and xlsx_to_csv
Converters == {<<"csv", "xlsx">>, <<"xlsx", "csv">>}

\* The formats load_data_file reads and save_data_file writes, of those used here
TabularFormats == {"csv", "xlsx"}

\* A file named by its user, f"{base}.{ext}": no timestamp in the name
SourceName(base, ext) == FileName(base, -1, 0, ext)

SourceFiles == {Path("input", SourceName("a", "csv")), Path("output", SourceName("a", "csv")),
                Path("input", SourceName("b", "xyz"))}

\* What a source file holds: nothing, or a table
SourceContents == {<<>>, [i \in 1..MaxLen |-> i]}

NoConversion ==
    [called |-> FALSE, file_path |-> <<>>, from_type |-> "", to_type |-> "",
     route |-> "", raised |-> "none", output |-> <<>>, source_before |-> <<>>]

\* A pandas reader for one format applied to a file: it raises on a missing
\* file, on an empty file and on a file of another format.
Reads(f, file_path, format) ==
    /\ Exists(f, file_path)
    /\ f[file_path] # <<>>
    /\ file_path[2].ext = format

\* load_data_file(file_path): validate_file_path, then the reader chosen by
\* the suffix; every failure leaves as an OperationalError.
Loads(f, file_path) ==
    /\ file_path[2].ext \in TabularFormats
    /\ Reads(f, file_path, file_path[2].ext)

\* What a call does: the route taken, the exception that leaves it, the file
\* it returns and the file system afterwards.
\*   copy        shutil.copy2 outside any try: its error leaves as raised
\*   generic     _generic_convert: except Exception -> ConversionError
\*   registered  cls._converters[key]: except Exception -> ConversionError
ConvertOutcome(f, now, file_path, from_type, to_type, output_dir) ==
    LET from == NormalFormat(from_type)
        to == NormalFormat(to_type)
        saved == SaveTarget(f, now, output_dir, to)
        output_file == Path(output_dir,
                            generate_timestamped_filename(f, now, output_dir,
                                                          file_path[2].base, to))
    IN IF from = to
       THEN IF Exists(f, file_path)
            THEN [route |-> "copy", raised |-> "none", output |-> output_file,
                  fs |-> Write(f, output_file, f[file_path])]
            ELSE [route |-> "copy", raised |-> "FileNotFoundError", output |-> <<>>,
                  fs |-> f]
       ELSE IF <<from, to>> \notin Converters
       THEN IF Loads(f, file_path) /\ to \in TabularFormats
            THEN [route |-> "generic", raised |-> "none", output |-> saved,
                  fs |-> Write(f, saved, f[file_path])]
            ELSE [route |-> "generic", raised |-> "ConversionError", output |-> <<>>,
                  fs |-> f]
       ELSE IF Reads(f, file_path, from)
            THEN [route |-> "registered", raised |-> "none", output |-> saved,
                  fs |-> Write(f, saved, f[file_path])]
            ELSE [route |-> "registered", raised |-> "ConversionError",
                  output |-> <<>>, fs |-> f]

\* ConversionRegistry.convert_file(file_path, from_type, to_type, output_dir)
ConvertFileCall(file_path, from_type, to_type, output_dir) ==
    LET out == ConvertOutcome(fs, clock, file_path, from_type, to_type, output_dir)
    IN /\ Cardinality(DOMAIN out.fs) <= MaxFiles
       /\ fs' = out.fs
       /\ conv' = [called |-> TRUE, file_path |-> file_path, from_type |-> from_type,
                   to_type |-> to_type, route |-> out.route, raised |-> out.raised,
                   output |-> out.output,
                   source_before |-> IF Exists(fs, file_path) THEN <<fs[file_path]>>
                                     ELSE <<>>]
       /\ UNCHANGED <<clock, notConversion>>

\* A user's file appears in a directory
PutSource(file_path, content) ==
    /\ Cardinality(DOMAIN fs) < MaxFiles - 1
    /\ ~Exists(fs, file_path)
    /\ fs' = Write(fs, file_path, content)
    /\ UNCHANGED <<clock, conv, notConversion>>

\* datetime.now() moves on by a second
ConversionTick ==
    /\ clock < MaxClock
    /\ clock' = clock + 1
    /\ UNCHANGED <<fs, conv, notConversion>>

NextConversion ==
    \/ \E p \in SourceFiles, c \in SourceContents : PutSource(p, c)
    \/ ConversionTick
    \/ \E p \in SourceFiles, from \in FormatSpellings, to \in FormatSpellings :
          ConvertFileCall(p, from, to, "output")

\* The route the formats of a call select
RouteOf(from, to) ==
    IF from = to THEN "copy"
    ELSE IF <<from, to>> \in Converters THEN "registered"
    ELSE "generic"

\* C21: convert_file dispatches on the lower-cased formats: identical
\* formats copy the source to a timestamped file in the output directory,
\* different from the source path, leaving the source as it is; a registered
\* pair runs the registered converter; any other pair runs the generic
\* load-then-save conversion.  On each of the three paths, every failure
\* reaches the caller as a ConversionError.
C21_ConvertDispatch ==
    conv.called =>
        /\ conv.route = RouteOf(NormalFormat(conv.from_type), NormalFormat(conv.to_type))
        /\ (conv.route = "copy" /\ conv.raised = "none") =>
              /\ conv.output[1] = "output"
              /\ conv.output[2].ts >= 0
              /\ conv.output # conv.file_path
              /\ Exists(fs, conv.output)
              /\ Exists(fs, conv.file_path)
              /\ <<fs[conv.file_path]>> = conv.source_before
        /\ conv.raised \in {"none", "ConversionError"}

(***************************************************************************)
(* utils/validators.py: validate_file_path.                                *)
(*                                                                         *)
(* A path is its sequence of segments below the root; the tree maps the    *)
(* paths that exist to what lies there: a directory, a file, or a link     *)
(* with the path it points to.                                             *)
(***************************************************************************)
MaxPathLen == 3

PathSegments == {"in", "out", "f", "l", ".."}

GivenPaths == UNION {[1..n -> PathSegments] : n \in 1..MaxPathLen}

Directory == [kind |-> "dir", to |-> <<>>]

RegularFile == [kind |-> "file", to |-> <<>>]

LinkTo(target) == [kind |-> "link", to |-> target]

\* The directories that are always there
BaseTree == (<<>> :> Directory) @@ (<<"in">> :> Directory) @@ (<<"out">> :> Directory)

\* What can be created and removed, and what the link in/l can point to
TreeFiles == {<<"in", "f">>, <<"out", "f">>}

LinkTargets == {<<"out">>, <<"out", "f">>, <<"in", "f">>}

Parent(p) == IF p = <<>> THEN <<>> ELSE SubSeq(p, 1, Len(p) - 1)

IsLinkAt(tree, p) == p \in DOMAIN tree /\ tree[p].kind = "link"

\* os.stat(path): the place the operating system reaches by walking the
\* path, or no place when a segment is missing or is not a directory
RECURSIVE Walk(_, _, _)
Walk(tree, at, rest) ==
    IF rest = <<>> THEN [ok |-> TRUE, at |-> at]
    ELSE IF tree[at].kind # "dir" THEN [ok |-> FALSE, at |-> at]
    ELSE IF Head(rest) = ".." THEN Walk(tree, Parent(at), Tail(rest))
    ELSE LET newpath == Append(at, Head(rest))
         IN IF newpath \notin DOMAIN tree THEN [ok |-> FALSE, at |-> newpath]
            ELSE IF IsLinkAt(tree, newpath)
            THEN Walk(tree, <<>>, tree[newpath].to \o Tail(rest))
            ELSE Walk(tree, newpath, Tail(rest))

\* Path(file_path).exists()
PathExists(tree, file_path) ==
    LET w == Walk(tree, <<>>, file_path) IN w.ok /\ w.at \in DOMAIN tree

\* Path(file_path).resolve(), strict=False: links are followed, a ".."
\* drops the last segment resolved so far whether or not it exists, and a
\* missing segment is kept as it is
RECURSIVE Resolve(_, _, _)
Resolve(tree, path, rest) ==
    IF rest = <<>> THEN path
    ELSE IF Head(rest) = ".." THEN Resolve(tree, Parent(path), Tail(rest))
    ELSE LET newpath == Append(path, Head(rest))
         IN IF IsLinkAt(tree, newpath)
            THEN Resolve(tree, <<>>, tree[newpath].to \o Tail(rest))
            ELSE Resolve(tree, newpath, Tail(rest))

\* resolved.relative_to(allowed) does not raise ValueError
RelativeTo(resolved, allowed) ==
    /\ Len(allowed) <= Len(resolved)
    /\ SubSeq(resolved, 1, Len(allowed)) = allowed

NoValidation ==
    [called |-> FALSE, file_path |-> <<>>, allowed_dir |-> None, raised |-> "none",
     resolved |-> <<>>]

\* validate_file_path(file_path, allowed_dir): the exception raised, or the
\* resolved path returned
validate_file_path(tree, file_path, allowed_dir) ==
    LET resolved == Resolve(tree, <<>>, file_path)
    IN IF resolved \notin DOMAIN tree
       THEN [raised |-> "FileNotFoundError", resolved |-> <<>>]
       ELSE IF allowed_dir # None
               /\ ~RelativeTo(resolved, Resolve(tree, <<>>, allowed_dir))
       THEN [raised |-> "ValidationError", resolved |-> <<>>]
       ELSE [raised |-> "none", resolved |-> resolved]

ValidateCall(file_path, allowed_dir) ==
    /\ LET out == validate_file_path(vp.tree, file_path, allowed_dir)
       IN vp' = [vp EXCEPT !.ret = [called |-> TRUE, file_path |-> file_path,
                                    allowed_dir |-> allowed_dir, raised |-> out.raised,
                                    resolved |-> out.resolved]]
    /\ UNCHANGED notValidate

\* A file is created or removed, the link in/l is made, changed or removed:
\* what an earlier call returned says nothing about the new tree.
CreateFile(p) ==
    /\ p \notin DOMAIN vp.tree
    /\ vp' = [tree |-> (p :> RegularFile) @@ vp.tree, ret |-> NoValidation]
    /\ UNCHANGED notValidate

RemoveFile(p) ==
    /\ p \in DOMAIN vp.tree
    /\ vp' = [tree |-> [q \in (DOMAIN vp.tree) \ {p} |-> vp.tree[q]], ret |-> NoValidation]
    /\ UNCHANGED notValidate

Symlink(target) ==
    /\ vp' = [tree |-> (<<"in", "l">> :> LinkTo(target)) @@ vp.tree, ret |-> NoValidation]
    /\ UNCHANGED notValidate

AllowedDirs == {None, <<"in">>}

NextValidate ==
    \/ \E p \in TreeFiles : CreateFile(p)
    \/ \E p \in TreeFiles \cup {<<"in", "l">>} : RemoveFile(p)
    \/ \E t \in LinkTargets : Symlink(t)
    \/ \E p \in GivenPaths, a \in AllowedDirs : ValidateCall(p, a)

\* Where the given path and the allowed directory really lead
LeadsTo(tree, path) == Walk(tree, <<>>, path).at

\* C22: validate_file_path(path, allowed_dir) returns normally only when
\* the path exists and, if allowed_dir is given, the place it resolves to
\* lies inside the resolved allowed_dir; it raises a not-found error for
\* every path that does not exist and a validation error for every existing
\* path that resolves outside allowed_dir, whether it leaves it through
\* ".." segments or through links.
C22_ValidatePath ==
    vp.ret.called =>
        LET r == vp.ret
            exists == PathExists(vp.tree, r.file_path)
            inside == RelativeTo(LeadsTo(vp.tree, r.file_path),
                                 LeadsTo(vp.tree, r.allowed_dir))
        IN /\ r.raised = "none" => exists /\ (r.allowed_dir # None => inside)
           /\ ~exists => r.raised = "FileNotFoundError"
           /\ (exists /\ r.allowed_dir # None /\ ~inside) => r.raised = "ValidationError"

(***************************************************************************)
(* services/file_io.py: generate_timestamped_filename, by the lengths of   *)
(* the parts of the name it builds.                                        *)
(***************************************************************************)
\* if len(filename) > 200
MaxNameLength == 200

\* len(datetime.now().strftime("%Y%m%d_%H%M%S"))
TimestampLength == 15

\* max_base = 200 - len(timestamp) - len(extension) - 5
TruncationSlack == 5

\* len(f"_{counter:03d}") for a counter below 1000
CounterLength == 4

\* The lengths of the sanitized base names and of the extensions passed
BaseLengths == {1} \cup 176..186

ExtLengths == {3} \cup 178..186

\* len(s[:k]) for a string of length n: a negative k counts from the end
SliceLength(n, k) == IF k >= 0 THEN Min(n, k) ELSE Max(0, n + k)

\* The parts of a name and its length: base, "_", timestamp, the sequence
\* number if any, ".", extension
NameParts(base, counter, ext) ==
    [base |-> base, timestamp |-> TimestampLength, counter |-> counter, ext |-> ext,
     length |-> base + 1 + TimestampLength + (IF counter THEN CounterLength ELSE 0)
                + 1 + ext]

\* generate_timestamped_filename(original_name, extension); collides: a file
\* of the first name built exists in the working directory
TimestampedName(base, ext, collides) ==
    LET filename == NameParts(base, collides, ext)
        max_base == MaxNameLength - TimestampLength - ext - TruncationSlack
    IN IF filename.length > MaxNameLength
       THEN NameParts(SliceLength(base, max_base), FALSE, ext)
       ELSE filename

NoName == [called |-> FALSE, base |-> 0, ext |-> 0, collides |-> FALSE,
           filename |-> NameParts(0, FALSE, 0)]

GenerateName(base, ext, collides) ==
    /\ tn' = [called |-> TRUE, base |-> base, ext |-> ext, collides |-> collides,
              filename |-> TimestampedName(base, ext, collides)]
    /\ UNCHANGED notNaming

NextNaming ==
    \E base \in BaseLengths, ext \in ExtLengths, collides \in BOOLEAN :
        GenerateName(base, ext, collides)

\* C23: for every base name and extension the name returned by
\* generate_timestamped_filename is at most 200 characters long, ends with
\* "." and the extension and contains the timestamp; when the untruncated
\* name would be longer, only the base-name part is shortened.
C23_NameWithin200 ==
    tn.called =>
        /\ tn.filename.length <= MaxNameLength
        /\ tn.filename.ext = tn.ext
        /\ tn.filename.timestamp = TimestampLength
        /\ tn.filename.counter = tn.collides
        /\ tn.filename.base <= tn.base
        /\ NameParts(tn.base, tn.collides, tn.ext).length <= MaxNameLength
              => tn.filename.base = tn.base

(***************************************************************************)
(* services/doc_ops.py: move_pages, one step per iteration of its loop.    *)
(* Pages and indices are zero-based as in the code; a list is a sequence,  *)
(* so the item at index k is the sequence's element k + 1.                 *)
(***************************************************************************)
MaxPages == 3

MaxMoves == 2

\* list.pop(k): the list without its item at index k
Pop(list, k) == SubSeq(list, 1, k) \o SubSeq(list, k + 2, Len(list))

\* list.insert(k, x) for k >= 0: x goes before the item at index k, at the
\* end when there is none
Insert(list, k, x) ==
    SubSeq(list, 1, Min(k, Len(list))) \o <<x>> \o SubSeq(list, Min(k, Len(list)) + 1, Len(list))

\* The insertion index were the removal shift not accounted for
InsertIndexUnshifted(src_idx, dst_idx) == dst_idx

\* if dst_idx > src_idx: dst_idx -= 1
InsertIndex(src_idx, dst_idx) == IF dst_idx > src_idx THEN dst_idx - 1 ELSE dst_idx

\* if src_idx < 0 or src_idx >= len(pages) or dst_idx < 0 or dst_idx > len(pages): continue
Skipped(pages, src_idx, dst_idx) ==
    src_idx < 0 \/ src_idx >= Len(pages) \/ dst_idx < 0 \/ dst_idx > Len(pages)

\* One iteration of the loop over moves
ApplyMove(pages, src_idx, dst_idx) ==
    IF Skipped(pages, src_idx, dst_idx) THEN pages
    ELSE Insert(Pop(pages, src_idx), InsertIndex(src_idx, dst_idx), pages[src_idx + 1])

NoPages == [pc |-> "idle", n |-> 0, total |-> 0, i |-> 1, move |-> <<0, 0>>,
            skipped |-> 0, pages |-> <<>>, before |-> <<>>, output |-> <<>>]

\* The indices a caller passes for a document of n pages
MoveIndices(n) == (0 - 1)..(n + 1)

\* reader = PdfReader(...); pages = list(range(len(reader.pages))); total is
\* len(moves), the moves themselves are drawn as the loop reaches them
MovePagesCall(n, total) ==
    /\ pg.pc = "idle"
    /\ pg' = [NoPages EXCEPT !.pc = "loop", !.n = n, !.total = total,
                            !.pages = [k \in 1..n |-> k - 1],
                            !.before = [k \in 1..n |-> k - 1]]
    /\ UNCHANGED notPages

\* for src_idx, dst_idx in moves
MovePagesStep(src_idx, dst_idx) ==
    /\ pg.pc = "loop"
    /\ pg.i <= pg.total
    /\ pg' = [pg EXCEPT !.before = pg.pages,
                        !.pages = ApplyMove(pg.pages, src_idx, dst_idx),
                        !.move = <<src_idx, dst_idx>>,
                        !.skipped = IF Skipped(pg.pages, src_idx, dst_idx) THEN @ + 1 ELSE @,
                        !.i = @ + 1]
    /\ UNCHANGED notPages

\* writer.add_page(reader.pages[p]) for p in pages; writer.write(f)
MovePagesWrite ==
    /\ pg.pc = "loop"
    /\ pg.i > pg.total
    /\ pg' = [pg EXCEPT !.pc = "written", !.output = pg.pages]
    /\ UNCHANGED notPages

\* The call has returned
MovePagesEnd ==
    /\ pg.pc = "written"
    /\ pg' = NoPages
    /\ UNCHANGED notPages

NextPages ==
    \/ \E n \in 1..MaxPages, total \in 0..MaxMoves : MovePagesCall(n, total)
    \/ \E src_idx, dst_idx \in MoveIndices(pg.n) : MovePagesStep(src_idx, dst_idx)
    \/ MovePagesWrite
    \/ MovePagesEnd

\* The index at which a page stands in an order
IndexOf(order, page) == CHOOSE k \in 0..(Len(order) - 1) : order[k + 1] = page

Without(order, page) == SelectSeq(order, LAMBDA p : p # page)

\* The latest move applied: the order before it and after it
MovedAsStated(before, after, s, d) ==
    IF s < 0 \/ s > Len(before) - 1 \/ d < 0 \/ d > Len(before)
    THEN after = before
    ELSE (d # s /\ d # s + 1) =>
            LET page == before[s + 1]
            IN /\ IF d = Len(before)
                  THEN IndexOf(after, page) = Len(after) - 1
                  ELSE /\ IndexOf(after, page) + 2 <= Len(after)
                       /\ after[IndexOf(after, page) + 2] = before[d + 1]
               /\ Without(after, page) = Without(before, page)

\* C24: for an n-page PDF and any list of moves applied in order, the
\* output page sequence is a permutation of the n source pages; a move
\* whose source is outside [0, n-1] or whose destination is outside [0, n]
\* leaves the order unchanged and does not stop later moves; a valid move
\* (s, d) with d not in {s, s+1} places the page that was at index s
\* immediately before the page that was at index d (or last when d = n)
\* and keeps the relative order of all other pages.
C24_MovesPermute ==
    pg.pc # "idle" =>
        /\ Len(pg.pages) = pg.n
        /\ {pg.pages[k] : k \in 1..Len(pg.pages)} = 0..(pg.n - 1)
        /\ pg.i > 1 => MovedAsStated(pg.before, pg.pages, pg.move[1], pg.move[2])
        /\ pg.pc = "written" => pg.i = pg.total + 1 /\ pg.output = pg.pages

\* A three-page document has been written after two moves: one was skipped,
\* the latest moved page 0 to insertion index 2
C24_Witness ==
    /\ pg.pc = "written"
    /\ pg.n = 3
    /\ pg.total = 2
    /\ pg.skipped = 1
    /\ pg.move = <<0, 2>>
    /\ pg.output = <<1, 0, 2>>

(***************************************************************************)
(* utils/logging.py: rotation and day switching, the file system working.  *)
(***************************************************************************)
\* The log calls are those during which no file-system operation fails
NextRotation ==
    \/ get_logger("main")
    \/ \E replaces \in BOOLEAN : Log("none", replaces)
    \/ LogSecond
    \/ LogTick

\* The step is a call of log
IsLogCall == lret'.op = "log" /\ lret'.odd # lret.odd

\* The rows a file holds, none when it does not exist
RowsOf(files, name) == IF name \in DOMAIN files THEN files[name].rows ELSE 0

Oversize(files, name) == name \in DOMAIN files /\ FileSize(files[name]) > MaxLogRows

\* What a log call does to the files, as stated: current is the logger's
\* file before the call, target its file after it
LoggedAsStated(files, current, after, target, today, second) ==
    /\ target = DayFile(today)
    /\ target \in DOMAIN after
    /\ after[target].header
    /\ IF Oversize(files, current)
       THEN /\ RotatedFile(today, second) \in DOMAIN after
            /\ after[RotatedFile(today, second)] = files[current]
            /\ current # target => current \notin DOMAIN after
            /\ after[target].rows = 1 + (IF current = target THEN 0 ELSE RowsOf(files, target))
       ELSE after[target].rows = RowsOf(files, target) + 1

\* The rows held by all the activity_*.csv files of the directory
RECURSIVE TotalRows(_, _)
TotalRows(files, names) ==
    IF names = {} THEN 0
    ELSE LET n == CHOOSE n \in names : TRUE
         IN files[n].rows + TotalRows(files, names \ {n})

\* C25: for every log call on an ActivityLogger: if the current log file's
\* size exceeds the rotation limit, that file is renamed to
\* activity_<date>_<time>.csv and the row goes to a fresh activity_<date>.csv;
\* if the calendar day has changed since the previous call, the row goes to
\* the new day's file; and in every case the file that receives the row
\* begins with the header line and gains exactly one row.
C25_RotationAndDaySwitch ==
    [][IsLogCall => LoggedAsStated(lg.files, lg.logger.current_log_file, lg'.files,
                                   lg'.logger.current_log_file, clock, lg.second)]_<<lg, lret>>

\* C29: no log row that was appended is removed by a later log call:
\* across any sequence of log calls on one logger, several size-triggered
\* rotations within the same second included, every row written before is
\* still in some activity_*.csv file of the logs directory, so a call never
\* leaves fewer rows in the directory than it found, and one more when it
\* appended its own.
C29_RowsNeverLost ==
    [][IsLogCall =>
          TotalRows(lg'.files, DOMAIN lg'.files)
              >= TotalRows(lg.files, DOMAIN lg.files)
                 + (IF lret'.raised \/ lret'.fallback THEN 0 ELSE 1)]_<<lg, lret>>

(***************************************************************************)
(* doc_ops.py: InMemorySearchIndex.search on documents long enough for the *)
(* snippet window and the snippet limit to matter.  A document is a run of *)
(* newlines, then an occurrence of the word, then a run of newlines, ...   *)
(***************************************************************************)
MaxMatches == 4

\* The lengths of the runs between the occurrences: none, the snippet
\* context, one more
GapLengths == {0, 80, 81}

\* The words written into the documents, and the queries searched
Words == {<<"A">>, <<"a", "A">>}

SnippetQueries == {<<"a">>, <<"A", "a">>, <<"\n", "a", "a">>}

Run(n) == [i \in 1..n |-> "\n"]

\* gaps[1], word, gaps[2], word, ..., gaps[Len(gaps)]
RECURSIVE LongText(_, _)
LongText(gaps, word) ==
    IF Len(gaps) = 1 THEN Run(gaps[1])
    ELSE Run(gaps[1]) \o word \o LongText(Tail(gaps), word)

LongTexts ==
    {LongText(gaps, word) :
        gaps \in UNION {[1..(k + 1) -> GapLengths] : k \in 0..MaxMatches}, word \in Words}

\* A document is indexed in an empty index
AddLongText(text) ==
    /\ mem = <<>>
    /\ MemAdd("d1", text)

NextSnippets ==
    \/ \E t \in LongTexts : AddLongText(t)
    \/ \E q \in SnippetQueries : MemSearch(q)
    \/ MemClear

\* The positions of the occurrences of q in text from start on, scanning
\* left to right and resuming just after the end of each match
RECURSIVE ScanPositions(_, _, _)
ScanPositions(text, q, start) ==
    LET here == {p \in start..(Len(text) - Len(q)) :
                    SubSeq(text, p + 1, p + Len(q)) = q}
    IN IF here = {} THEN <<>>
       ELSE LET p == CHOOSE p \in here : \A r \in here : p <= r
            IN <<p>> \o ScanPositions(text, q, p + Len(q))

\* text with every newline replaced by a space
Spaced(text) == [i \in 1..Len(text) |-> IF text[i] = "\n" THEN " " ELSE text[i]]

MaxMtime == 1

Mtimes == 0..MaxMtime

\* The entries the watched directory can hold, with what each is.
WatchedNames == {<<"a", "csv">>, <<"b", "CSV">>, <<"c", "txt">>, <<"d">>, <<"e", "csv">>}

KindOf(name) == IF name = <<"e", "csv">> THEN "dir" ELSE "file"

\* The pattern sets a watcher is constructed with.
PatternSets == { {<<".", "csv">>}, {<<".", "CSV">>, <<".", "TXT">>}, {<<"csv">>} }

\* str.lower on one part
LowerPart(s) ==
    CASE s = "CSV" -> "csv"
      [] s = "TXT" -> "txt"
      [] OTHER -> s

\* str.lower on a suffix or pattern
LowerSuffix(t) == [i \in 1..Len(t) |-> LowerPart(t[i])]

\* PurePath.suffix: the last dot-separated part with its dot, "" when the
\* name has no dot inside it
PathSuffix(name) == IF Len(name) >= 2 THEN <<".", name[Len(name)]>> ELSE <<>>

NoScan == [called |-> FALSE, reported |-> {}, before |-> <<>>,
           reportedAt |-> <<>>, quiet |-> FALSE]

NoWatcher == [made |-> FALSE, dir |-> FALSE, files |-> <<>>, given |-> {}, patterns |-> {},
              seen |-> <<>>, reportedAt |-> <<>>, changed |-> TRUE, ret |-> NoScan]

\* __init__: self.patterns = {p.lower() for p in patterns}; self._seen = {}
PollingWatcherInit(patterns) ==
    /\ pw' = [pw EXCEPT !.made = TRUE,
                        !.given = patterns,
                        !.patterns = {LowerSuffix(p) : p \in patterns},
                        !.seen = <<>>,
                        !.reportedAt = <<>>,
                        !.changed = TRUE,
                        !.ret = NoScan]
    /\ UNCHANGED notWatcher

\* The watched directory is created.
MakeWatchedDir ==
    /\ ~pw.dir
    /\ pw' = [pw EXCEPT !.dir = TRUE, !.changed = TRUE, !.ret = NoScan]
    /\ UNCHANGED notWatcher

\* An entry appears in the directory with some modification time.
WatchedCreate(name, mtime) ==
    /\ pw.dir
    /\ name \notin DOMAIN pw.files
    /\ pw' = [pw EXCEPT !.files = (name :> [kind |-> KindOf(name), mtime |-> mtime]) @@ @,
                        !.changed = TRUE,
                        !.ret = NoScan]
    /\ UNCHANGED notWatcher

\* A file is written again; its modification time becomes any time, the one
\* it had and earlier ones included (coarse timestamps, copy2, utime).
WatchedModify(name, mtime) ==
    /\ name \in DOMAIN pw.files
    /\ pw.files[name].kind = "file"
    /\ pw' = [pw EXCEPT !.files[name].mtime = mtime, !.changed = TRUE, !.ret = NoScan]
    /\ UNCHANGED notWatcher

\* The test that only asks whether the recorded time differs from a later one
\* or equals it.
IsNewOrUpdatedLoose(seen, key, mtime) == key \notin DOMAIN seen \/ seen[key] <= mtime

\* key not in self._seen or self._seen[key] < mtime
IsNewOrUpdated(seen, key, mtime) == key \notin DOMAIN seen \/ seen[key] < mtime

\* The body of scan(): the paths appended to new_files.
NewFiles(w) ==
    IF ~w.dir THEN {}
    ELSE {p \in DOMAIN w.files :
            /\ w.files[p].kind = "file"
            /\ LowerSuffix(PathSuffix(p)) \in w.patterns
            /\ IsNewOrUpdated(w.seen, p, w.files[p].mtime)}

\* scan(): self._seen[key] = mtime for every path reported.
Scan ==
    /\ pw.made
    /\ LET new_files == NewFiles(pw)
       IN pw' = [pw EXCEPT
                   !.seen = [p \in DOMAIN pw.seen \cup new_files |->
                               IF p \in new_files THEN pw.files[p].mtime ELSE pw.seen[p]],
                   !.reportedAt = [p \in DOMAIN pw.reportedAt \cup new_files |->
                               IF p \in new_files THEN pw.files[p].mtime
                               ELSE pw.reportedAt[p]],
                   !.changed = FALSE,
                   !.ret = [called |-> TRUE, reported |-> new_files,
                            before |-> pw.files, reportedAt |-> pw.reportedAt,
                            quiet |-> ~pw.changed]]
    /\ UNCHANGED notWatcher

NextWatcher ==
    \/ \E patterns \in PatternSets : PollingWatcherInit(patterns)
    \/ MakeWatchedDir
    \/ \E name \in WatchedNames, mtime \in Mtimes : WatchedCreate(name, mtime)
    \/ \E name \in WatchedNames, mtime \in Mtimes : WatchedModify(name, mtime)
    \/ Scan

\* The file has one of the configured extensions, compared without case.
HasConfiguredExtension(name, given) ==
    \E g \in given : LowerSuffix(g) = LowerSuffix(PathSuffix(name))

\* C26: across file creations, modifications and scans on one watcher, a scan
\* reports a file if and only if the file has one of the configured
\* extensions (compared case-insensitively) and either was never reported by
\* this watcher or has a modification time greater than the one recorded at
\* its last report; and a scan that follows a scan with no change to the
\* directory in between reports nothing.
C26_ScanReportsNewOrUpdated ==
    pw.ret.called =>
        /\ pw.ret.reported \subseteq DOMAIN pw.ret.before
        /\ \A p \in DOMAIN pw.ret.before :
             pw.ret.before[p].kind = "file" =>
               (p \in pw.ret.reported <=>
                  /\ HasConfiguredExtension(p, pw.given)
                  /\ \/ p \notin DOMAIN pw.ret.reportedAt
                     \/ pw.ret.before[p].mtime > pw.ret.reportedAt[p])
        /\ pw.ret.quiet => pw.ret.reported = {}

\* A watcher given ".CSV" and ".TXT" scans a directory in which c.txt was
\* reported before and has been written since with a later time, while a.csv
\* was reported before and still has the time recorded: only c.txt is reported.
C26_Witness ==
    /\ pw.ret.called
    /\ pw.given = {<<".", "CSV">>, <<".", "TXT">>}
    /\ pw.ret.reported = {<<"c", "txt">>}
    /\ <<"c", "txt">> \in DOMAIN pw.ret.reportedAt
    /\ <<"a", "csv">> \in DOMAIN pw.ret.reportedAt
    /\ pw.ret.before[<<"a", "csv">>].mtime = pw.ret.reportedAt[<<"a", "csv">>]

(***************************************************************************)
(* services/data_ops.py: _merge_with_similarity.                           *)
(*                                                                         *)
(* A DataFrame is the sequence of its rows, a row a record over the        *)
(* columns k1 and k2; a row's index label is its position.  A score is a   *)
(* fraction [num, den], compared by cross-multiplication, so that means    *)
(* and thresholds are exact.  The merged frame is kept as the row pairs    *)
(* the exact join produced and the row pairs the similarity pass appended; *)
(* 0 stands for the missing side of a padded row.                          *)
(***************************************************************************)
KeyValues == [k1 |-> {"ab", "ac", "xy"}, k2 |-> {"ab", "xy"}]

SimilarityRows == [k1 : KeyValues.k1, k2 : KeyValues.k2]

\* The frames passed: one or two rows.
SimilarityFrames ==
    {<<r>> : r \in SimilarityRows} \cup {<<r, s>> : r \in SimilarityRows, s \in SimilarityRows}

OnChoices == {<<"k1">>, <<"k1", "k2">>}

SimilarityColumnChoices == {<<"k1">>, <<"k2">>, <<"k1", "k2">>}

HowChoices == {"inner", "left", "right", "outer"}

\* Thresholds in hundredths.
ThresholdChoices == {0, 50, 100}

\* fuzz.token_set_ratio on the one-word values above: 100 for equal words,
\* 50 for "ab" against "ac" (one of two letters shared), 0 otherwise.
token_set_ratio(val1, val2) ==
    IF val1 = val2 THEN 100
    ELSE IF {val1, val2} = {"ab", "ac"} THEN 50
    ELSE 0

AtLeast(a, b) == a.num * b.den >= b.num * a.den

Above(a, b) == a.num * b.den > b.num * a.den

\* Rows i of df1 and j of df2 agree on every column of on_cols.
KeysEqual(df1, i, df2, j, on_cols) ==
    \A c \in 1..Len(on_cols) : df1[i][on_cols[c]] = df2[j][on_cols[c]]

\* pd.merge(df1, df2, on=on_cols, how=how): the row pairs of the result.
ExactMerge(df1, df2, on_cols, how) ==
    LET both == {<<i, j>> \in (1..Len(df1)) \X (1..Len(df2)) : KeysEqual(df1, i, df2, j, on_cols)}
        left_only == {<<i, 0>> : i \in {i \in 1..Len(df1) : \A j \in 1..Len(df2) : <<i, j>> \notin both}}
        right_only == {<<0, j>> : j \in {j \in 1..Len(df2) : \A i \in 1..Len(df1) : <<i, j>> \notin both}}
    IN both \cup (IF how \in {"left", "outer"} THEN left_only ELSE {})
            \cup (IF how \in {"right", "outer"} THEN right_only ELSE {})

\* df[~df[col].isin(other[col])]: the index labels kept, in order.
NotIsin(df, other, col) ==
    SelectSeq([i \in 1..Len(df) |-> i],
              LAMBDA i : \A j \in 1..Len(other) : df[i][col] # other[j][col])

RECURSIVE Scores(_, _, _, _)
\* The scores list of one pair of rows: the sum of the column scores and how
\* many columns were scored.
Scores(row1, row2, similarity_columns, c) ==
    IF c > Len(similarity_columns) THEN [sum |-> 0, count |-> 0]
    ELSE LET col == similarity_columns[c]
             rest == Scores(row1, row2, similarity_columns, c + 1)
         IN IF col \in DOMAIN row1 /\ col \in DOMAIN row2
            THEN [sum |-> token_set_ratio(row1[col], row2[col]) + rest.sum,
                  count |-> rest.count + 1]
            ELSE rest

\* avg_score = np.mean(scores) if scores else 0, each score being ratio / 100.0
AvgScore(row1, row2, similarity_columns) ==
    LET s == Scores(row1, row2, similarity_columns, 1)
    IN IF s.count = 0 THEN [num |-> 0, den |-> 1]
       ELSE [num |-> s.sum, den |-> 100 * s.count]

RECURSIVE BestMatch(_, _, _, _, _, _, _, _)
\* The inner loop over unmatched_df2, from its k-th row on.
BestMatch(row1, df2, unmatched_df2, similarity_columns, threshold, k, best_match, best_score) ==
    IF k > Len(unmatched_df2) THEN [best_match |-> best_match, best_score |-> best_score]
    ELSE LET idx2 == unmatched_df2[k]
             avg_score == AvgScore(row1, df2[idx2], similarity_columns)
         IN IF AtLeast(avg_score, threshold) /\ Above(avg_score, best_score)
            THEN BestMatch(row1, df2, unmatched_df2, similarity_columns, threshold,
                           k + 1, idx2, avg_score)
            ELSE BestMatch(row1, df2, unmatched_df2, similarity_columns, threshold,
                           k + 1, best_match, best_score)

RECURSIVE SimilarityMatches(_, _, _, _, _, _, _)
\* The outer loop over unmatched_df1, from its k-th row on: similarity_matches.
SimilarityMatches(df1, df2, unmatched_df1, unmatched_df2, similarity_columns, threshold, k) ==
    IF k > Len(unmatched_df1) THEN <<>>
    ELSE LET idx1 == unmatched_df1[k]
             best == BestMatch(df1[idx1], df2, unmatched_df2, similarity_columns, threshold,
                               1, 0, [num |-> 0, den |-> 1])
             rest == SimilarityMatches(df1, df2, unmatched_df1, unmatched_df2,
                                       similarity_columns, threshold, k + 1)
         IN IF best.best_match # 0
            THEN <<[idx1 |-> idx1, idx2 |-> best.best_match, score |-> best.best_score]>> \o rest
            ELSE rest

\* _merge_with_similarity(df1, df2, on, how, threshold, similarity_columns)
merge_with_similarity(df1, df2, on, how, threshold, similarity_columns) ==
    LET on_cols == on
        exact_match == ExactMerge(df1, df2, on_cols, how)
        unmatched_df1 == IF how \in {"inner", "left"} THEN NotIsin(df1, df2, on_cols[1]) ELSE <<>>
        unmatched_df2 == IF how \in {"inner", "right", "outer"}
                         THEN NotIsin(df2, df1, on_cols[1]) ELSE <<>>
        similarity_matches ==
            IF Len(unmatched_df1) > 0 /\ Len(unmatched_df2) > 0
            THEN SimilarityMatches(df1, df2, unmatched_df1, unmatched_df2,
                                   similarity_columns, [num |-> threshold, den |-> 100], 1)
            ELSE <<>>
    IN [exact_match |-> exact_match,
        unmatched_df1 |-> unmatched_df1,
        unmatched_df2 |-> unmatched_df2,
        similarity_merged |-> similarity_matches]

NoSimilarity == [called |-> FALSE]

\* merge_dataframes(df1, df2, on, how, threshold, use_similarity=True, columns)
MergeSimilarCall(df1, df2, on, how, threshold, similarity_columns) ==
    /\ ~sim.called
    /\ sim' = [called |-> TRUE, df1 |-> df1, df2 |-> df2, on |-> on, how |-> how,
               threshold |-> threshold, similarity_columns |-> similarity_columns,
               result |-> merge_with_similarity(df1, df2, on, how, threshold,
                                                similarity_columns)]
    /\ UNCHANGED notSimilarity

\* The caller takes the merged frame.
MergeSimilarEnd ==
    /\ sim.called
    /\ sim' = NoSimilarity
    /\ UNCHANGED notSimilarity

NextSimilarity ==
    \/ /\ ~sim.called
       /\ \E df1 \in SimilarityFrames, df2 \in SimilarityFrames, on \in OnChoices,
             how \in HowChoices, threshold \in ThresholdChoices,
             similarity_columns \in SimilarityColumnChoices :
            MergeSimilarCall(df1, df2, on, how, threshold, similarity_columns)
    \/ MergeSimilarEnd

\* The rows of df that the exact join on all of on matched with no row of other.
JoinUnmatched(df, other, on) ==
    {i \in 1..Len(df) : \A j \in 1..Len(other) : ~KeysEqual(df, i, other, j, on)}

\* The mean similarity of rows i and j over the similarity columns, in hundredths
\* times the number of columns.
MeanTimesColumns(df1, i, df2, j, cols) ==
    LET RECURSIVE Total(_)
        Total(c) == IF c > Len(cols) THEN 0
                    ELSE token_set_ratio(df1[i][cols[c]], df2[j][cols[c]]) + Total(c + 1)
    IN Total(1)

\* C27: with similarity matching on, the rows treated as unmatched are
\* exactly the left and the right rows that the exact join on all key columns
\* did not match; for each unmatched left row the candidate is the unmatched
\* right row of highest mean similarity over the similarity columns, and one
\* fuzzy row pairing the two is added if and only if that highest mean is at
\* or above the threshold, for every threshold in [0, 1]; otherwise no fuzzy
\* row is added for that left row.
C27_FuzzyRowsAsStated ==
    sim.called =>
        LET left == JoinUnmatched(sim.df1, sim.df2, sim.on)
            right == JoinUnmatched(sim.df2, sim.df1, sim.on)
            cols == sim.similarity_columns
            fuzzy == sim.result.similarity_merged
            Mean(i, j) == MeanTimesColumns(sim.df1, i, sim.df2, j, cols)
            Highest(i) == CHOOSE m \in {Mean(i, j) : j \in right} :
                              \A j \in right : Mean(i, j) <= m
            RowsFor(i) == {k \in 1..Len(fuzzy) : fuzzy[k].idx1 = i}
        IN /\ {sim.result.unmatched_df1[k] : k \in 1..Len(sim.result.unmatched_df1)} = left
           /\ {sim.result.unmatched_df2[k] : k \in 1..Len(sim.result.unmatched_df2)} = right
           /\ \A k \in 1..Len(fuzzy) : fuzzy[k].idx1 \in left
           /\ \A i \in left :
                IF right # {} /\ Highest(i) >= sim.threshold * Len(cols)
                THEN /\ Cardinality(RowsFor(i)) = 1
                     /\ \A k \in RowsFor(i) :
                          /\ fuzzy[k].idx2 \in right
                          /\ Mean(i, fuzzy[k].idx2) = Highest(i)
                ELSE RowsFor(i) = {}

(***************************************************************************)
(* Specifications.                                                         *)
(***************************************************************************)
Init ==
    /\ InitFiles
    /\ sp = NoSplit
    /\ mem = <<>>
    /\ added = <<>>
    /\ ret = NoReturn
    /\ pinst = <<>>
    /\ pdir = <<>>
    /\ padded = <<>>
    /\ pret = NoReturn
    /\ InitDocPage
    /\ InitDataPage
    /\ edits_staged = <<>>
    /\ eshown = [op |-> "none", file |-> <<"", "">>, done |-> FALSE]
    /\ mwidgets = [file1 |-> <<"a", "csv">>, file2 |-> <<"c", "csv">>, how |-> "inner"]
    /\ mshown = [event |-> "first", merged |-> NoMerge, save_offered |-> FALSE,
                 save_reached |-> FALSE, pending |-> NoMerge]
    /\ cv = NoBatch
    /\ memo = {}
    /\ cret = NoCall
    /\ lg = [configured |-> "logs", logger |-> NoLogger, files |-> <<>>, returned |-> {},
             second |-> 0]
    /\ lret = [op |-> "none", fault |-> "none", raised |-> FALSE, fallback |-> FALSE,
               odd |-> FALSE]
    /\ cfg = [doc |-> DefaultConfig, config_file |-> [kind |-> "absent"],
              template |-> [kind |-> "absent"]]
    /\ kret = NoConfigCall
    /\ conv = NoConversion
    /\ vp = [tree |-> BaseTree, ret |-> NoValidation]
    /\ tn = NoName
    /\ pg = NoPages
    /\ pw = NoWatcher
    /\ sim = NoSimilarity

Next ==
    \/ NextFiles
    \/ NextSplit
    \/ NextIndex
    \/ NextPersist
    \/ NextDocPage
    \/ NextDataPage
    \/ NextEdit
    \/ NextSaveCopy
    \/ NextMerge
    \/ NextConvert
    \/ NextTracker
    \/ NextCache
    \/ NextLog
    \/ NextConfigAccess
    \/ NextConfigLoad
    \/ NextConversion
    \/ NextValidate
    \/ NextNaming
    \/ NextPages
    \/ NextRotation
    \/ NextSnippets
    \/ NextWatcher
    \/ NextSimilarity

Spec == Init /\ [][Next]_vars

SpecFiles == Init /\ [][NextFiles]_vars

SpecSplit == Init /\ [][NextSplit]_vars

SpecIndex == Init /\ [][NextIndex]_vars

SpecPersist == Init /\ [][NextPersist]_vars

SpecDocPage == Init /\ [][NextDocPage]_vars

SpecDataPage == Init /\ [][NextDataPage]_vars

SpecEdit == Init /\ [][NextEdit]_vars

SpecSaveCopy == Init /\ [][NextSaveCopy]_vars

SpecMerge == Init /\ [][NextMerge]_vars

SpecConvert == Init /\ [][NextConvert]_vars

SpecTracker == Init /\ [][NextTracker]_vars

SpecCache == Init /\ [][NextCache]_vars

SpecLog == Init /\ [][NextLog]_vars

SpecConfigAccess == Init /\ [][NextConfigAccess]_vars

SpecConfigLoad == Init /\ [][NextConfigLoad]_vars

SpecConversion == Init /\ [][NextConversion]_vars

SpecValidate == Init /\ [][NextValidate]_vars

SpecNaming == Init /\ [][NextNaming]_vars

SpecPages == Init /\ [][NextPages]_vars

SpecRotation == Init /\ [][NextRotation]_vars

SpecSnippets == Init /\ [][NextSnippets]_vars

SpecWatcher == Init /\ [][NextWatcher]_vars

SpecSimilarity == Init /\ [][NextSimilarity]_vars
====
